---- MODULE Spec2Model ----
(***************************************************************************)
(* A model of the batch engine and the rating registry of openskill:       *)
(*   - partition_waves            (src/openskill/batch.py)                 *)
(*   - BatchProcessor.process     (src/openskill/batch.py)                 *)
(*   - Ladder, RatingView         (src/openskill/ladder.py)                *)
(*   - PlackettLuce.rate, BradleyTerryPart.rate, _unwind,                  *)
(*     _calculate_rankings, BradleyTerryPart._compute, predict_rank        *)
(*                                (src/openskill/models/weng_lin)          *)
(* Ratings are integers: the closed-form real update of the models is      *)
(* replaced by an integer update with the same data flow (see Compute).    *)
(* Entity ids are the integers 1..6 (strings in the code); team, wave and  *)
(* array indices are 0-based as in the code, sequence positions 1-based.   *)
(***************************************************************************)
EXTENDS Integers, Sequences, FiniteSets, TLC

VARIABLES
    games,               \* the game list handed to partition_waves / process
    idx,                 \* partition_waves: loop index of `for idx, game in enumerate(games)`
    waves,               \* partition_waves: waves built so far; process: the list of waves
    wave_entities,       \* partition_waves: entity set of each wave
    entity_latest_wave,  \* partition_waves: dict entity -> latest wave index
    mode,                \* BatchProcessor: n_workers, pipeline, _use_threads
    limit_sigma,         \* model.limit_sigma
    initial_ratings,     \* process: the initial_ratings argument
    partition_fault,     \* the environment makes partition_waves raise in the builder
    pc,                  \* process: where the calling thread is
    entity_to_idx,       \* process: entity registry
    mus,                 \* process: flat array of mu
    sigmas,              \* process: flat array of sigma
    wave_q,              \* _process_pipelined: the bounded queue
    builder,             \* _process_pipelined: where the builder thread is
    wpos,                \* position in `waves` of the loop feeding the waves
    wave,                \* _execute_wave_*: the wave being executed
    todo,                \* the games left of a loop that rates them one by one
    futures,             \* _execute_wave_*: state of each submitted game
    items,               \* per submitted game: the ratings it read / its work item
    applied,             \* _execute_wave_multiprocess: results applied so far
    started,             \* indices of the games that have read their input ratings
    written,             \* indices of the games whose write-back is complete
    result,              \* process: the returned map
    _max,                \* Ladder: capacity (max_entities)
    _mus,                \* Ladder: pre-allocated array of mu
    _sigmas,             \* Ladder: pre-allocated array of sigma
    _entity_to_idx,      \* Ladder: dict entity id -> array index
    _views,              \* Ladder: dict entity id -> RatingView (the index it reads)
    _size,               \* Ladder: number of registered entities
    ladder_pc,           \* Ladder: "none", "open" for calls, "rated" after a rating call
    last_call,           \* Ladder: the last call, its arguments, what it raised or returned
    held,                \* Ladder: the RatingView objects the caller has obtained
    kind,                \* model.rate: the class of the Model, "none" when there is no caller
    heap,                \* model.rate: the Rating objects, object id -> (mu, sigma)
    calls,               \* model.rate: number of rate calls made on the Model
    last_rate,           \* model.rate: the last call, its arguments and what it returned
    fast_scores,         \* fast path: the scores of the game being rated
    rank_indices,        \* fast path: the ranks the scores were converted to
    team_ranks,          \* _calculate_rankings: the rank vector handed in
    rank_output,         \* _calculate_rankings: the list returned
    part_teams,          \* BradleyTerryPart._compute: the rank-sorted teams handed in
    part_out,            \* BradleyTerryPart._compute: the teams paired and the result
    predict_teams,       \* predict_rank: the teams handed in
    predictions          \* predict_rank: the list of (rank, probability) returned

waveVars == <<idx, wave_entities, entity_latest_wave>>

batchVars == <<mode, limit_sigma, initial_ratings, partition_fault, pc, entity_to_idx,
               mus, sigmas, wave_q, builder, wpos, wave, todo, futures, items,
               applied, started, written, result>>

ladderVars == <<_max, _mus, _sigmas, _entity_to_idx, _views, _size, ladder_pc, last_call,
                held>>

rateVars == <<kind, heap, calls, last_rate>>

\* the arguments and results of the functions of the models called on
\* their own
pureVars == <<team_ranks, rank_output, part_teams, part_out, predict_teams, predictions>>

scoreVars == <<fast_scores, rank_indices, pureVars>>

vars == <<games, waves, waveVars, batchVars, ladderVars, rateVars, scoreVars>>

---------------------------------------------------------------------------
(* Bounds of the model.                                                    *)

\* longest game list handed to partition_waves in SpecWaves
MaxWaveGames == 4

\* longest game list handed to process in SpecBatch
MaxGames == 4

\* longest game list handed to process in SpecPipe
MaxPipeGames == 5

\* longest game list handed to Ladder.rate_batch
MaxBatchGames == 3

\* largest max_entities of a Ladder
MaxCapacity == 4

---------------------------------------------------------------------------
(* Helpers.                                                                *)

Range(s) == { s[i] : i \in DOMAIN s }

SetMax(S) == CHOOSE x \in S : \A y \in S : y <= x

\* the wave a partitioner that scans the waves from the last one down picks
LastFit(S) == CHOOSE x \in S : \A y \in S : y <= x

SetMin(S) == CHOOSE x \in S : \A y \in S : x <= y

\* all sequences over S of length 0..n
SeqsUpTo(S, n) == UNION { [1..k -> S] : k \in 0..n }

---------------------------------------------------------------------------
(* Game descriptor: batch.py Game (teams, ranks).                          *)

\* Game(teams=[[a], [b]], ranks=r)
Game(a, b, r) == [teams |-> << <<a>>, <<b>> >>, ranks |-> r]

\* the entities of a game as a partitioner that looks at the first team only
\* collects them
GameEntsFirstTeam(game) == Range(game.teams[1])

\* the entities of a game: `for team in game.teams: game_ents.update(team)`
GameEnts(game) == UNION { Range(game.teams[t]) : t \in DOMAIN game.teams }

---------------------------------------------------------------------------
(* partition_waves.                                                        *)

\* the state of partition_waves before its loop
EmptyPartition ==
    [waves |-> << >>, wave_entities |-> << >>, entity_latest_wave |-> << >>]

\* min_wave as a partitioner without the chronological lower bound computes it
MinWaveNoLowerBound(game_ents, latest) == 0

\* min_wave: one past the latest wave that holds an entity of the game
MinWave(game_ents, latest) ==
    SetMax({0} \cup { latest[e] + 1 : e \in game_ents \cap DOMAIN latest })

\* entity_latest_wave as a dict that keeps the first wave of an entity
SetLatestKeepsFirst(latest, game_ents, w) ==
    [e \in (DOMAIN latest) \cup game_ents |->
        IF e \in DOMAIN latest THEN latest[e] ELSE w]

\* `entity_latest_wave[ent] = w` for every entity of the game
SetLatest(latest, game_ents, w) ==
    [e \in (DOMAIN latest) \cup game_ents |->
        IF e \in game_ents THEN w ELSE latest[e]]

\* the loop body of a partitioner that starts every wave it picks afresh:
\* the game replaces what the wave held
PlaceGameOverwrites(st, i, game) ==
    LET game_ents == GameEnts(game)
        min_wave  == MinWave(game_ents, st.entity_latest_wave)
        w_idx     == IF min_wave < Len(st.waves) THEN min_wave ELSE Len(st.waves)
    IN  IF w_idx < Len(st.waves)
        THEN [waves |-> [st.waves EXCEPT ![w_idx + 1] = << <<i, game>> >>],
              wave_entities |-> [st.wave_entities EXCEPT ![w_idx + 1] = game_ents],
              entity_latest_wave |->
                  SetLatest(st.entity_latest_wave, game_ents, w_idx)]
        ELSE [waves |-> Append(st.waves, << <<i, game>> >>),
              wave_entities |-> Append(st.wave_entities, game_ents),
              entity_latest_wave |->
                  SetLatest(st.entity_latest_wave, game_ents, w_idx)]

\* one iteration of the loop over the games: the first wave >= min_wave that
\* is disjoint from the game takes it, or a new wave is appended
PlaceGame(st, i, game) ==
    LET game_ents == GameEnts(game)
        min_wave  == MinWave(game_ents, st.entity_latest_wave)
        fits      == { w \in min_wave..(Len(st.waves) - 1) :
                          game_ents \cap st.wave_entities[w + 1] = {} }
    IN  IF fits # {}
        THEN LET w_idx == SetMin(fits)
             IN  [waves |-> [st.waves EXCEPT ![w_idx + 1] = Append(@, <<i, game>>)],
                  wave_entities |->
                      [st.wave_entities EXCEPT ![w_idx + 1] = @ \cup game_ents],
                  entity_latest_wave |->
                      SetLatest(st.entity_latest_wave, game_ents, w_idx)]
        ELSE LET new_idx == Len(st.waves)
             IN  [waves |-> Append(st.waves, << <<i, game>> >>),
                  wave_entities |-> Append(st.wave_entities, game_ents),
                  entity_latest_wave |->
                      SetLatest(st.entity_latest_wave, game_ents, new_idx)]

RECURSIVE PartitionFrom(_, _, _)
PartitionFrom(st, gs, i) ==
    IF i >= Len(gs) THEN st
    ELSE CHOOSE done \in { PartitionFrom(placed, gs, i + 1) :
                             placed \in {PlaceGame(st, i, gs[i + 1])} } : TRUE

\* partition_waves(games): the list of waves, each a list of <<index, game>>
partition_waves(gs) == PartitionFrom(EmptyPartition, gs, 0).waves

\* the wave (0-based) holding game i in a list of waves, -1 if none does
WaveOf(ws, i) ==
    LET hit == { w \in 1..Len(ws) : \E k \in 1..Len(ws[w]) : ws[w][k][1] = i }
    IN  IF hit = {} THEN -1 ELSE SetMin(hit) - 1

\* the ids that play in a game
Players(game) ==
    UNION { { game.teams[t][p] : p \in 1..Len(game.teams[t]) } : t \in 1..Len(game.teams) }

---------------------------------------------------------------------------
(* The per-game update of the fast path: batch.py _rate_game_fast and      *)
(* _worker_rate_game, ladder.py Ladder._rate_py.                           *)

\* math.sqrt on the integer grid: the least r with r * r >= n
Sqrt(n) == CHOOSE r \in 0..n : r * r >= n /\ (r = 0 \/ (r - 1) * (r - 1) < n)

\* sorted(range(len(ranks)), key=lambda i: ranks[i]): the 0-based positions
\* in ascending rank order, equal ranks in position order (a stable sort)
RECURSIVE SortedOrder(_, _)
SortedOrder(ranks, left) ==
    IF left = {} THEN << >>
    ELSE LET i == CHOOSE x \in left : \A y \in left :
                      \/ ranks[x + 1] < ranks[y + 1]
                      \/ (ranks[x + 1] = ranks[y + 1] /\ x <= y)
         IN  <<i>> \o SortedOrder(ranks, left \ {i})

Order(ranks) == SortedOrder(ranks, 0..(Len(ranks) - 1))

\* [xs[i] for i in order]
Permute(xs, order) == [k \in 1..Len(order) |-> xs[order[k] + 1]]

\* _calculate_rankings(game, ranks) for integer ranks: position `index` gets
\* the position of the first team of its run of non-increasing values
RECURSIVE RankingAt(_, _)
RankingAt(team_scores, index) ==
    IF index = 0 THEN 0
    ELSE IF team_scores[index] < team_scores[index + 1] THEN index
    ELSE RankingAt(team_scores, index - 1)

CalculateRankings(n_teams, ranks) ==
    [k \in 1..n_teams |-> RankingAt(ranks, k - 1)]

\* sum of f over the positions of a sequence
RECURSIVE SumSeq(_, _)
SumSeq(s, k) == IF k = 0 THEN 0 ELSE s[k] + SumSeq(s, k - 1)

TeamMu(team) == SumSeq([p \in 1..Len(team) |-> team[p].mu], Len(team))

\* model._compute on rank-sorted teams.  The integer stand-in of the update
\* keeps its data flow: the shift omega of team i is summed over the other
\* teams q from the outcome against q (their ranks) and the expectation
\* against q (their summed mu), every player of the team moves by omega, and
\* sigma shrinks by a factor below one, never under the floor kappa (1 here).
Compute(teams, ranks) ==
    CHOOSE computed \in {
        LET score(i, q) == IF rank[q] > rank[i] THEN 2 ELSE IF rank[q] = rank[i] THEN 1 ELSE 0
            expect(i, q) == IF team_mu[i] > team_mu[q] THEN 2
                            ELSE IF team_mu[i] = team_mu[q] THEN 1 ELSE 0
            omega(i) == SumSeq([q \in 1..Len(teams) |->
                                   IF q = i THEN 0 ELSE score(i, q) - expect(i, q)],
                               Len(teams))
            shrink(s) == IF Len(teams) > 1 THEN s \div 4 ELSE 0
        IN  [i \in 1..Len(teams) |->
                [j \in 1..Len(teams[i]) |->
                    [mu |-> teams[i][j].mu + omega(i),
                     sigma |-> IF teams[i][j].sigma - shrink(teams[i][j].sigma) < 1 THEN 1
                               ELSE teams[i][j].sigma - shrink(teams[i][j].sigma)]]] :
        rank \in {CalculateRankings(Len(teams), ranks)},
        team_mu \in {[i \in 1..Len(teams) |-> TeamMu(teams[i])]} } : TRUE

\* team_indices: the array index of every player, team by team
TeamIndices(teams, e2i) ==
    [t \in 1..Len(teams) |-> [p \in 1..Len(teams[t]) |-> e2i[teams[t][p]]]]

\* the values of an array at the indices of the teams:
\* team_mus.append([mus[i] for i in indices])
Snapshot(team_indices, arr) ==
    [t \in 1..Len(team_indices) |->
        [p \in 1..Len(team_indices[t]) |-> arr[team_indices[t][p]]]]

\* the disposable ratings of a game, sigma inflated by tau:
\* _FastRating(m, math.sqrt(s * s + tau_sq))
FastTeams(team_mus, team_sigmas, tau_sq) ==
    [t \in 1..Len(team_mus) |->
        [p \in 1..Len(team_mus[t]) |->
            [mu |-> team_mus[t][p],
             sigma |-> Sqrt(team_sigmas[t][p] * team_sigmas[t][p] + tau_sq)]]]

\* `[teams[i] for i in order]` raises IndexError when the rank list is longer
\* than the team list
SortRaises(n_teams, ranks) == Len(ranks) > n_teams

\* the flat list of <<array index, mu, sigma, snapshot sigma>> in the order of
\* the write-back loops (team by team, player by player)
RECURSIVE Flatten(_, _, _)
Flatten(res, team_indices, team_sigmas) ==
    IF Len(res) = 0 THEN << >>
    ELSE [p \in 1..Len(res[1]) |->
             <<team_indices[1][p], res[1][p].mu, res[1][p].sigma,
               team_sigmas[1][p]>>]
         \o Flatten(Tail(res), Tail(team_indices), Tail(team_sigmas))

\* the sort by rank and the call of _compute; the res is paired with the
\* sorted team_indices and the sorted snapshot of sigma
SortAndCompute(team_indices, team_mus, team_sigmas, ranks, tau_sq) ==
    CHOOSE updates \in {
        Flatten(res, Permute(team_indices, order), Permute(team_sigmas, order)) :
        order \in {Order(ranks)},
        res \in { Compute(t, r) :
                    t \in { Permute(FastTeams(team_mus, team_sigmas, tau_sq), o) :
                              o \in {Order(ranks)} },
                    r \in { Permute(ranks, o) : o \in {Order(ranks)} } } } : TRUE

\* the write-back loop of _rate_game_fast / _rate_py: the clamp of limit_sigma
\* reads the array at the time of the write
RECURSIVE WriteBack(_, _, _, _)
WriteBack(updates, ms, ss, limit) ==
    IF Len(updates) = 0 THEN [mus |-> ms, sigmas |-> ss]
    ELSE LET u == updates[1]
             new_sigma == IF limit /\ ss[u[1]] < u[3] THEN ss[u[1]] ELSE u[3]
         IN  WriteBack(Tail(updates),
                       [ms EXCEPT ![u[1]] = u[2]],
                       [ss EXCEPT ![u[1]] = new_sigma],
                       limit)

\* _rate_game_fast / _rate_py from the read of the ratings to the write-back;
\* raised is TRUE, and the arrays are as they were, when the game raises
RateGameFast(game, e2i, ms, ss, tau_sq, limit) ==
    LET team_indices == TeamIndices(game.teams, e2i)
    IN  IF SortRaises(Len(game.teams), game.ranks)
        THEN [raised |-> TRUE, mus |-> ms, sigmas |-> ss]
        ELSE CHOOSE out \in {
                 [raised |-> FALSE] @@ WriteBack(updates, ms, ss, limit) :
                 updates \in { SortAndCompute(ti, Snapshot(ti, ms), Snapshot(ti, ss),
                                              game.ranks, tau_sq) :
                                 ti \in {team_indices} } } : TRUE

\* the updates of a worker that does not clamp sigma
WorkerNoClamp(updates, limit) ==
    [k \in 1..Len(updates) |-> <<updates[k][1], updates[k][2], updates[k][3]>>]

\* the clamp of _worker_rate_game: against the sigma shipped with the work item
WorkerClamp(updates, limit) ==
    [k \in 1..Len(updates) |->
        <<updates[k][1], updates[k][2],
          IF limit /\ updates[k][4] < updates[k][3]
          THEN updates[k][4] ELSE updates[k][3]>>]

\* _worker_rate_game(args): the list of (entity index, new mu, new sigma) of
\* one work item, or raised
WorkerRateGame(item, tau_sq, limit) ==
    IF SortRaises(Len(item.team_indices), item.ranks)
    THEN [raised |-> TRUE, updates |-> << >>]
    ELSE [raised |-> FALSE,
          updates |-> CHOOSE clamped \in {
                          WorkerClamp(computed, limit) :
                          computed \in {SortAndCompute(item.team_indices, item.team_mus,
                                                       item.team_sigmas, item.ranks,
                                                       tau_sq)} } : TRUE]

\* the driver's loop over the updates of one work item:
\* mus[idx] = new_mu; sigmas[idx] = new_sigma
RECURSIVE ApplyUpdates(_, _, _)
ApplyUpdates(updates, ms, ss) ==
    IF Len(updates) = 0 THEN [mus |-> ms, sigmas |-> ss]
    ELSE ApplyUpdates(Tail(updates),
                      [ms EXCEPT ![updates[1][1]] = updates[1][2]],
                      [ss EXCEPT ![updates[1][1]] = updates[1][3]])

---------------------------------------------------------------------------
(* BatchProcessor.process.                                                 *)

\* the model's defaults and tau * tau on the integer grid
DefaultMu == 25
DefaultSigma == 8
TauSq == 1

\* the None that ends the stream of waves in the queue (no wave is empty)
Sentinel == << >>

\* wave_q = queue.Queue(maxsize=self.n_workers * 2)
QueueCap == 2 * mode.n_workers

\* the entity ids of a list of games in order of appearance
RECURSIVE Concat(_)
Concat(ss) == IF Len(ss) = 0 THEN << >> ELSE ss[1] \o Concat(Tail(ss))

EntitySeq(gs) == Concat([k \in 1..Len(gs) |-> Concat(gs[k].teams)])

\* `if eid not in entity_to_idx: entity_to_idx[eid] = len(entity_to_idx)`
RECURSIVE BuildRegistry(_, _)
BuildRegistry(e2i, eids) ==
    IF Len(eids) = 0 THEN e2i
    ELSE CHOOSE done \in {
             BuildRegistry(next, rest) :
             next \in { IF eids[1] \in DOMAIN e2i THEN e2i
                        ELSE [e \in (DOMAIN e2i) \cup {eids[1]} |->
                                 IF e = eids[1] THEN Cardinality(DOMAIN e2i)
                                 ELSE e2i[e]] },
             rest \in {Tail(eids)} } : TRUE

\* the flat arrays after the defaults and initial_ratings are filled in
InitialArray(e2i, initial, field, default) ==
    [i \in 0..(Cardinality(DOMAIN e2i) - 1) |->
        LET eid == CHOOSE e \in DOMAIN e2i : e2i[e] = i
        IN  IF eid \in DOMAIN initial THEN initial[eid][field] ELSE default]

\* the returned map: {idx_to_eid[i]: (mus[i], sigmas[i]) for i in range(n)}
ResultMap(e2i, ms, ss) ==
    [e \in DOMAIN e2i |-> [mu |-> ms[e2i[e]], sigma |-> ss[e2i[e]]]]

Indexed(gs) == [k \in 1..Len(gs) |-> <<k - 1, gs[k]>>]

IndicesOf(w) == { w[k][1] : k \in 1..Len(w) }

Pipelined == mode.n_workers > 1 /\ mode.pipeline

\* where the calling thread goes when a wave (or the sequential loop) is done
AfterWave ==
    IF mode.n_workers <= 1 THEN "finish" ELSE IF mode.pipeline THEN "get" ELSE "waves"

\* where an exception takes the calling thread: in pipelined mode through
\* `finally: builder.join()`
AfterRaise == IF Pipelined THEN "join_exc" ELSE "raised"

\* the work item of one game: indices and a snapshot of their ratings
WorkItem(game, e2i, ms, ss) ==
    LET team_indices == TeamIndices(game.teams, e2i)
    IN  [team_indices |-> team_indices,
         team_mus |-> Snapshot(team_indices, ms),
         team_sigmas |-> Snapshot(team_indices, ss),
         ranks |-> game.ranks]

\* the variables partition_waves works on are not used while process runs
WavesIdle == idx = 0 /\ wave_entities = << >> /\ entity_latest_wave = << >>

\* no Ladder has been constructed
LadderIdle ==
    /\ _max = 0 /\ _mus = << >> /\ _sigmas = << >> /\ _entity_to_idx = << >>
    /\ _views = << >> /\ _size = 0 /\ ladder_pc = "none" /\ last_call = << >>
    /\ held = {}

\* no caller of model.rate holds Rating objects
RateIdle == kind = "none" /\ heap = << >> /\ calls = 0 /\ last_rate = << >>

\* no function of a model is called on its own
PureIdle ==
    /\ team_ranks = << >> /\ rank_output = << >>
    /\ part_teams = << >> /\ part_out = << >>
    /\ predict_teams = << >> /\ predictions = << >>

\* no game with scores is being rated
ScoresIdle == fast_scores = << >> /\ rank_indices = << >> /\ PureIdle

\* process is not running
BatchIdle ==
    /\ mode = [n_workers |-> 1, pipeline |-> FALSE, use_threads |-> FALSE]
    /\ limit_sigma = FALSE /\ initial_ratings = << >> /\ partition_fault = FALSE
    /\ pc = "idle" /\ entity_to_idx = << >> /\ mus = << >> /\ sigmas = << >>
    /\ wave_q = << >> /\ builder = "none" /\ wpos = 0 /\ wave = << >> /\ todo = << >>
    /\ futures = << >> /\ items = << >> /\ applied = 0
    /\ started = {} /\ written = {} /\ result = << >>

\* _execute_wave_threaded / _execute_wave_multiprocess entered with wave w
Dispatch(w) ==
    /\ wave' = w
    /\ IF Len(w) <= 2
       THEN /\ todo' = w /\ pc' = "inline"
            /\ UNCHANGED <<futures, items, applied, started>>
       ELSE IF mode.use_threads
       THEN /\ futures' = [k \in 1..Len(w) |-> "pending"]
            /\ items' = [k \in 1..Len(w) |-> << >>]
            /\ pc' = "wait"
            /\ UNCHANGED <<todo, applied, started>>
       ELSE /\ items' = [k \in 1..Len(w) |-> WorkItem(w[k][2], entity_to_idx, mus, sigmas)]
            /\ futures' = [k \in 1..Len(w) |-> "pending"]
            /\ applied' = 0
            /\ started' = started \cup IndicesOf(w)
            /\ pc' = "map"
            /\ UNCHANGED todo

\* process up to the dispatch to a processing strategy
Process_Start ==
    /\ pc = "call"
    /\ IF Len(games) = 0
       THEN /\ result' = initial_ratings
            /\ pc' = "returned"
            /\ UNCHANGED <<entity_to_idx, mus, sigmas, todo, waves, wpos, wave_q, builder>>
       ELSE \E e2i \in { BuildRegistry(<< >>, eids) : eids \in {EntitySeq(games)} } :
                /\ entity_to_idx' = e2i
                /\ mus' = InitialArray(e2i, initial_ratings, "mu", DefaultMu)
                /\ sigmas' = InitialArray(e2i, initial_ratings, "sigma", DefaultSigma)
                /\ IF mode.n_workers <= 1
                   THEN /\ todo' = Indexed(games) /\ pc' = "inline"
                        /\ UNCHANGED <<waves, wpos, wave_q, builder>>
                   ELSE IF mode.pipeline
                   THEN /\ wave_q' = << >> /\ builder' = "partition" /\ pc' = "get"
                        /\ UNCHANGED <<waves, wpos, todo>>
                   ELSE /\ waves' = partition_waves(games) /\ wpos' = 0 /\ pc' = "waves"
                        /\ UNCHANGED <<wave_q, builder, todo>>
                /\ UNCHANGED result
    /\ UNCHANGED <<scoreVars, rateVars, ladderVars, games, waveVars, mode, limit_sigma, initial_ratings, partition_fault,
                   wave, futures, items, applied, started, written>>

\* one call of _rate_game_fast in a loop of the calling thread
\* (_process_sequential, or a wave of at most two games)
RateNext ==
    /\ pc = "inline" /\ Len(todo) > 0
    /\ \E r \in {RateGameFast(todo[1][2], entity_to_idx, mus, sigmas, TauSq, limit_sigma)} :
           /\ mus' = r.mus /\ sigmas' = r.sigmas
           /\ started' = started \cup {todo[1][1]}
           /\ IF r.raised
              THEN /\ pc' = AfterRaise /\ UNCHANGED <<todo, written>>
              ELSE /\ todo' = Tail(todo)
                   /\ written' = written \cup {todo[1][1]}
                   /\ pc' = IF Len(todo) = 1 THEN AfterWave ELSE "inline"
    /\ UNCHANGED <<scoreVars, rateVars, ladderVars, games, waves, waveVars, mode, limit_sigma, initial_ratings,
                   partition_fault, entity_to_idx, wave_q, builder, wpos, wave,
                   futures, items, applied, result>>

\* _process_waves: `for wave in waves:`
NextWave ==
    /\ pc = "waves"
    /\ IF wpos < Len(waves)
       THEN /\ Dispatch(waves[wpos + 1]) /\ wpos' = wpos + 1
       ELSE /\ pc' = "finish"
            /\ UNCHANGED <<wpos, wave, todo, futures, items, applied, started>>
    /\ UNCHANGED <<scoreVars, rateVars, ladderVars, games, waves, waveVars, mode, limit_sigma, initial_ratings,
                   partition_fault, entity_to_idx, mus, sigmas, wave_q, builder,
                   written, result>>

\* build_waves_ahead: partition_waves(games), which the builder thread runs
\* before it puts the first wave
Builder_Partition ==
    /\ builder = "partition"
    /\ IF partition_fault
       THEN builder' = "died" /\ UNCHANGED <<waves, wpos>>
       ELSE builder' = "put" /\ waves' = partition_waves(games) /\ wpos' = 0
    /\ UNCHANGED <<scoreVars, rateVars, ladderVars, games, waveVars, mode, limit_sigma, initial_ratings, partition_fault,
                   pc, entity_to_idx, mus, sigmas, wave_q, wave, todo, futures, items,
                   applied, started, written, result>>

\* build_waves_ahead: wave_q.put(wave), which blocks while the queue is full
Builder_Put ==
    /\ builder = "put" /\ wpos < Len(waves)
    /\ Len(wave_q) < QueueCap
    /\ wave_q' = Append(wave_q, waves[wpos + 1])
    /\ wpos' = wpos + 1
    /\ UNCHANGED <<scoreVars, rateVars, ladderVars, games, waves, waveVars, mode, limit_sigma, initial_ratings,
                   partition_fault, pc, entity_to_idx, mus, sigmas, builder, wave, todo,
                   futures, items, applied, started, written, result>>

\* build_waves_ahead as a builder that ends after the last wave without
\* putting the None
Builder_EndsWithoutSentinel ==
    /\ builder = "put" /\ wpos = Len(waves)
    /\ builder' = "done"
    /\ UNCHANGED <<scoreVars, rateVars, ladderVars, games, waves, waveVars, mode, limit_sigma,
                   initial_ratings, partition_fault, pc, entity_to_idx, mus, sigmas,
                   wave_q, wpos, wave, todo, futures, items, applied, started, written,
                   result>>

\* build_waves_ahead: wave_q.put(None), after which the thread ends
Builder_Sentinel ==
    /\ builder = "put" /\ wpos = Len(waves)
    /\ Len(wave_q) < QueueCap
    /\ wave_q' = Append(wave_q, Sentinel)
    /\ builder' = "done"
    /\ UNCHANGED <<scoreVars, rateVars, ladderVars, games, waves, waveVars, mode, limit_sigma, initial_ratings,
                   partition_fault, pc, entity_to_idx, mus, sigmas, wpos, wave, todo,
                   futures, items, applied, started, written, result>>

\* _process_pipelined: wave = wave_q.get(), which blocks while the queue is
\* empty; None ends the loop
Consumer_Get ==
    /\ pc = "get" /\ Len(wave_q) > 0
    /\ wave_q' = Tail(wave_q)
    /\ IF wave_q[1] = Sentinel
       THEN /\ pc' = "join"
            /\ UNCHANGED <<wave, todo, futures, items, applied, started>>
       ELSE Dispatch(wave_q[1])
    /\ UNCHANGED <<scoreVars, rateVars, ladderVars, games, waves, waveVars, mode, limit_sigma, initial_ratings,
                   partition_fault, entity_to_idx, mus, sigmas, builder, wpos,
                   written, result>>

\* a pool thread enters _rate_game_fast for game k of the wave and reads the
\* ratings of its players
Worker_Read(k) ==
    /\ pc = "wait" /\ futures[k] = "pending"
    /\ Cardinality({ j \in 1..Len(futures) : futures[j] = "running" }) < mode.n_workers
    /\ futures' = [futures EXCEPT ![k] = "running"]
    /\ items' = [items EXCEPT ![k] = WorkItem(wave[k][2], entity_to_idx, mus, sigmas)]
    /\ started' = started \cup {wave[k][1]}
    /\ UNCHANGED <<scoreVars, rateVars, ladderVars, games, waves, waveVars, mode, limit_sigma, initial_ratings,
                   partition_fault, pc, entity_to_idx, mus, sigmas, wave_q, builder,
                   wpos, wave, todo, applied, written, result>>

\* the pool thread computes from what it read and writes back, or raises
Worker_Write(k) ==
    /\ pc = "wait" /\ futures[k] = "running"
    /\ IF SortRaises(Len(items[k].team_indices), items[k].ranks)
       THEN /\ futures' = [futures EXCEPT ![k] = "failed"]
            /\ UNCHANGED <<mus, sigmas, written>>
       ELSE \E r \in { WriteBack(updates, mus, sigmas, limit_sigma) :
                         updates \in {SortAndCompute(items[k].team_indices,
                                                     items[k].team_mus,
                                                     items[k].team_sigmas,
                                                     items[k].ranks, TauSq)} } :
                /\ mus' = r.mus /\ sigmas' = r.sigmas
                /\ futures' = [futures EXCEPT ![k] = "done"]
                /\ written' = written \cup {wave[k][1]}
    /\ UNCHANGED <<scoreVars, rateVars, ladderVars, games, waves, waveVars, mode, limit_sigma, initial_ratings,
                   partition_fault, pc, entity_to_idx, wave_q, builder, wpos, wave,
                   todo, items, applied, started, result>>

\* `for f in futures: f.result()` and the exit of the executor's `with`, which
\* waits for every submitted game: the wave ends, or the first error is raised
Driver_Wait ==
    /\ pc = "wait"
    /\ \A k \in 1..Len(futures) : futures[k] \in {"done", "failed"}
    /\ pc' = IF \E k \in 1..Len(futures) : futures[k] = "failed"
             THEN AfterRaise ELSE AfterWave
    /\ UNCHANGED <<scoreVars, rateVars, ladderVars, games, waves, waveVars, mode, limit_sigma, initial_ratings,
                   partition_fault, entity_to_idx, mus, sigmas, wave_q, builder, wpos,
                   wave, todo, futures, items, applied, started, written, result>>

\* a pool process runs _worker_rate_game on work item k
Worker_Compute(k) ==
    /\ pc = "map" /\ futures[k] = "pending"
    /\ futures' = [futures EXCEPT ![k] = "done"]
    /\ UNCHANGED <<scoreVars, rateVars, ladderVars, games, waves, waveVars, mode, limit_sigma, initial_ratings,
                   partition_fault, pc, entity_to_idx, mus, sigmas, wave_q, builder,
                   wpos, wave, todo, items, applied, started, written, result>>

\* `for updates in executor.map(...)`: the results come in the order of the
\* work items; the driver applies one, or the item's error is raised
Driver_Apply ==
    /\ pc = "map" /\ applied < Len(wave) /\ futures[applied + 1] = "done"
    /\ \E r \in {WorkerRateGame(items[applied + 1], TauSq, limit_sigma)} :
       \E a \in {ApplyUpdates(r.updates, mus, sigmas)} :
           IF r.raised
           THEN /\ pc' = AfterRaise
                /\ UNCHANGED <<mus, sigmas, applied, written>>
           ELSE /\ mus' = a.mus /\ sigmas' = a.sigmas
                /\ applied' = applied + 1
                /\ written' = written \cup {wave[applied + 1][1]}
                /\ pc' = IF applied + 1 = Len(wave) THEN AfterWave ELSE "map"
    /\ UNCHANGED <<scoreVars, rateVars, ladderVars, games, waves, waveVars, mode, limit_sigma, initial_ratings,
                   partition_fault, entity_to_idx, wave_q, builder, wpos, wave, todo,
                   futures, items, started, result>>

\* `finally: builder.join()` returns once the builder thread has ended
Join ==
    /\ pc \in {"join", "join_exc"}
    /\ builder \in {"done", "died"}
    /\ pc' = IF pc = "join" THEN "finish" ELSE "raised"
    /\ UNCHANGED <<scoreVars, rateVars, ladderVars, games, waves, waveVars, mode, limit_sigma, initial_ratings,
                   partition_fault, entity_to_idx, mus, sigmas, wave_q, builder, wpos,
                   wave, todo, futures, items, applied, started, written, result>>

\* process builds the result and returns
Finish ==
    /\ pc = "finish"
    /\ result' = ResultMap(entity_to_idx, mus, sigmas)
    /\ pc' = "returned"
    /\ UNCHANGED <<scoreVars, rateVars, ladderVars, games, waves, waveVars, mode, limit_sigma, initial_ratings,
                   partition_fault, entity_to_idx, mus, sigmas, wave_q, builder, wpos,
                   wave, todo, futures, items, applied, started, written>>

NextBatch ==
    \/ Process_Start
    \/ RateNext
    \/ NextWave
    \/ Builder_Partition
    \/ Builder_Put
    \/ Builder_Sentinel
    \/ Consumer_Get
    \/ \E k \in 1..Len(futures) : Worker_Read(k)
    \/ \E k \in 1..Len(futures) : Worker_Write(k)
    \/ Driver_Wait
    \/ \E k \in 1..Len(futures) : Worker_Compute(k)
    \/ Driver_Apply
    \/ Join
    \/ Finish

\* the execution modes: one worker, or two with each of pipeline and the
\* free-threaded runtime on or off
Modes ==
    {[n_workers |-> 1, pipeline |-> TRUE, use_threads |-> FALSE]} \cup
    { [n_workers |-> 2, pipeline |-> p, use_threads |-> t] : p \in BOOLEAN, t \in BOOLEAN }

\* one-against-one games: three that can share a wave, one that overlaps two
\* of them; the second team wins, the first wins, or a tie
BatchGameKinds ==
    { Game(1, 2, <<2, 1>>), Game(2, 3, <<1, 2>>), Game(3, 4, <<1, 1>>),
      Game(5, 6, <<2, 1>>) }

\* the initial_ratings handed to process: a low sigma for one player of the
\* games and for one entity that plays no game; the other players start from
\* the model's defaults
InitialRatings ==
    { [e \in {2, 7} |-> [mu |-> 20 + e, sigma |-> 2]] }

BatchCall(kinds, n) ==
    /\ games \in SeqsUpTo(kinds, n)
    /\ mode \in Modes
    /\ limit_sigma \in BOOLEAN
    /\ initial_ratings \in InitialRatings
    /\ pc = "call"
    /\ waves = << >> /\ WavesIdle
    /\ entity_to_idx = << >> /\ mus = << >> /\ sigmas = << >>
    /\ wave_q = << >> /\ builder = "none" /\ wpos = 0 /\ wave = << >> /\ todo = << >>
    /\ futures = << >> /\ items = << >> /\ applied = 0
    /\ started = {} /\ written = {} /\ result = << >>
    /\ LadderIdle
    /\ RateIdle
    /\ ScoresIdle

InitBatch == BatchCall(BatchGameKinds, MaxGames) /\ partition_fault = FALSE

SpecBatch == InitBatch /\ [][NextBatch]_vars

\* the entities that play in a game of the list
PlayingEntities == UNION { Players(games[k]) : k \in 1..Len(games) }

\* C29: when process has returned, every id of initial_ratings is a key of
\* the returned map, and an id that plays in no game has its initial
\* (mu, sigma) there, whether the game list is empty or not.
C29_InitialRatingsKept ==
    pc = "returned" =>
        \A e \in DOMAIN initial_ratings :
            /\ e \in DOMAIN result
            /\ e \notin PlayingEntities => result[e] = initial_ratings[e]

\* the games of the list one after the other, in input order, on the arrays
\* (each intermediate value is bound once, as the element of a singleton)
RECURSIVE RateInOrder(_, _, _, _)
RateInOrder(gs, e2i, arrays, limit) ==
    IF Len(gs) = 0 THEN arrays
    ELSE RateInOrder(Tail(gs), e2i,
                     CHOOSE r \in { RateGameFast(gs[1], e2i, a.mus, a.sigmas, TauSq, limit) :
                                       a \in {arrays} } : TRUE,
                     limit)

\* the rating map of the game list applied strictly in input order
InOrderMap(gs, initial, limit) ==
    IF Len(gs) = 0 THEN initial
    ELSE LET e2i == BuildRegistry(<< >>, EntitySeq(gs))
             start == [mus |-> InitialArray(e2i, initial, "mu", DefaultMu),
                       sigmas |-> InitialArray(e2i, initial, "sigma", DefaultSigma)]
         IN  CHOOSE m \in { ResultMap(e2i, r.mus, r.sigmas) :
                               r \in {RateInOrder(gs, e2i, start, limit)} } : TRUE

Reverse(xs) == [k \in 1..Len(xs) |-> xs[Len(xs) + 1 - k]]

\* C4: whatever the execution mode and the order in which the games of a
\* wave complete, process returns the rating map of the games applied one by
\* one in input order.
C4_ModesAgree ==
    pc = "returned" => result = InOrderMap(games, initial_ratings, limit_sigma)

\* process returned from the process pool after a wave of three games and a
\* later wave, on a game list whose result depends on the order of the games
C4_Witness ==
    /\ pc = "returned" /\ mode.n_workers = 2 /\ ~mode.use_threads /\ limit_sigma
    /\ Len(waves) >= 2 /\ applied = 3
    /\ InOrderMap(Reverse(games), initial_ratings, limit_sigma) # result

\* the array indices a game reads and writes
Slots(game) == { entity_to_idx[e] : e \in Players(game) }

\* C5: in thread-pool mode no two games that are in flight (submitted and not
\* finished) touch the same array slot.
C5_DisjointInFlight ==
    (pc = "wait" /\ mode.use_threads) =>
        \A j, k \in 1..Len(futures) :
            (j # k /\ futures[j] \in {"pending", "running"}
                   /\ futures[k] \in {"pending", "running"})
                => Slots(wave[j][2]) \cap Slots(wave[k][2]) = {}

\* two games of a wave are running in the pool at the same time
C5_Witness ==
    /\ pc = "wait" /\ mode.use_threads
    /\ Cardinality({ k \in 1..Len(futures) : futures[k] = "running" }) = 2

\* C6: in every mode, a game reads its input ratings only after every
\* earlier game that shares an entity with it has been written back, and
\* only after every game of the earlier waves has been written back.
C6_HappensBefore ==
    \A j \in started : \A i \in (0..(Len(games) - 1)) \ written :
        /\ ~(i < j /\ Players(games[i + 1]) \cap Players(games[j + 1]) # {})
        /\ ~(WaveOf(waves, i) >= 0 /\ WaveOf(waves, i) < WaveOf(waves, j))

\* a game has started that shares an entity with a game of an earlier wave of
\* three games run by the pool
C6_Witness ==
    /\ mode.n_workers = 2 /\ Len(waves) >= 2 /\ Len(waves[1]) = 3
    /\ \E i, j \in 0..(Len(games) - 1) :
          /\ i < j /\ Players(games[i + 1]) \cap Players(games[j + 1]) # {}
          /\ j \in started /\ WaveOf(waves, i) = 0

---------------------------------------------------------------------------
(* SpecPipe: process in pipelined mode on game lists long enough to fill   *)
(* the queue, with games that raise and with a failing partitioner.        *)

\* a chain of games of the same two players, two games that can share a wave
\* with it, and a game whose rank list is longer than its team list
PipeGameKinds ==
    { Game(1, 2, <<2, 1>>), Game(3, 4, <<1, 2>>), Game(5, 6, <<1, 2>>),
      Game(1, 2, <<1, 2, 3>>) }

InitPipe ==
    /\ BatchCall(PipeGameKinds, MaxPipeGames)
    /\ Pipelined
    /\ ~limit_sigma
    /\ partition_fault \in BOOLEAN

NextPipe ==
    \/ Process_Start
    \/ RateNext
    \/ Builder_Partition
    \/ Builder_Put
    \/ Builder_Sentinel
    \/ Consumer_Get
    \/ \E k \in 1..Len(futures) : Worker_Read(k)
    \/ \E k \in 1..Len(futures) : Worker_Write(k)
    \/ Driver_Wait
    \/ \E k \in 1..Len(futures) : Worker_Compute(k)
    \/ Driver_Apply
    \/ Join
    \/ Finish

SpecPipe == InitPipe /\ [][NextPipe]_vars

\* process has returned control to its caller
Returned == pc \in {"returned", "raised"}

\* C8: once executing a wave has raised in pipelined mode, the call goes on
\* until it has returned control: it is never left without a step to take.
C8_ErrorSurfaces ==
    (~partition_fault /\ pc = "join_exc") => ENABLED NextPipe

\* C9: when partition_waves fails in the builder thread, the call goes on
\* until it has returned control: it is never left without a step to take.
C9_BuilderFailureSurfaces ==
    builder = "died" => (Returned \/ ENABLED NextPipe)

---------------------------------------------------------------------------
(* SpecWaves: partition_waves run one loop iteration at a time on every    *)
(* game list of up to MaxWaveGames games.                                  *)

WaveEntities == 1..4

\* the one-against-one games between two of four entities, and one
\* two-against-two game
WaveGameKinds ==
    { Game(p[1], p[2], <<1, 2>>) :
        p \in { q \in WaveEntities \X WaveEntities : q[1] < q[2] } }
    \cup { [teams |-> << <<1, 2>>, <<3, 4>> >>, ranks |-> <<1, 2>>] }

InitWaves ==
    /\ games \in SeqsUpTo(WaveGameKinds, MaxWaveGames)
    /\ idx = 0
    /\ waves = << >>
    /\ wave_entities = << >>
    /\ entity_latest_wave = << >>
    /\ BatchIdle
    /\ LadderIdle
    /\ RateIdle
    /\ ScoresIdle

\* the loop body of partition_waves for games[idx]
PlaceNext ==
    /\ idx < Len(games)
    /\ LET st == PlaceGame([waves |-> waves, wave_entities |-> wave_entities,
                            entity_latest_wave |-> entity_latest_wave],
                           idx, games[idx + 1])
       IN  /\ waves' = st.waves
           /\ wave_entities' = st.wave_entities
           /\ entity_latest_wave' = st.entity_latest_wave
    /\ idx' = idx + 1
    /\ UNCHANGED <<scoreVars, rateVars, ladderVars, games, batchVars>>

NextWaves == PlaceNext

SpecWaves == InitWaves /\ [][NextWaves]_vars

\* C1: no entity id occurs in two different games of one wave (at every
\* iteration of partition_waves, so in the list it returns).
C1_WaveSafety ==
    \A w \in 1..Len(waves) : \A k1, k2 \in 1..Len(waves[w]) :
        k1 # k2 => Players(waves[w][k1][2]) \cap Players(waves[w][k2][2]) = {}

\* partition_waves is done with four games: the first wave holds two of
\* them, and there is a second wave
C1_Witness ==
    /\ idx = Len(games) /\ idx = 4
    /\ Len(waves) >= 2 /\ Len(waves[1]) = 2

\* C2: two placed games i < j that share an entity are in waves with
\* wave(i) < wave(j).
C2_WaveOrdering ==
    \A i, j \in 0..(idx - 1) :
        (i < j /\ Players(games[i + 1]) \cap Players(games[j + 1]) # {})
            => (WaveOf(waves, i) >= 0 /\ WaveOf(waves, i) < WaveOf(waves, j))

\* a later game shares an entity with an earlier game that is not in the last
\* wave before it: only the lower bound min_wave keeps it behind
C2_Witness ==
    /\ idx = Len(games)
    /\ \E i, j, k \in 0..(idx - 1) :
        /\ i < j /\ j < k
        /\ Players(games[j + 1]) \cap Players(games[k + 1]) # {}
        /\ Players(games[i + 1]) \cap Players(games[k + 1]) = {}
        /\ WaveOf(waves, i) = 0 /\ WaveOf(waves, j) = 1 /\ WaveOf(waves, k) = 2

\* the places <<wave, position>> of the list of waves that hold index i
PlacesOf(ws, i) ==
    { p \in { q \in (1..Len(ws)) \X (1..MaxWaveGames + 1) : q[2] <= Len(ws[q[1]]) } :
        ws[p[1]][p[2]][1] = i }

\* C11: every game placed so far is in exactly one wave, once, tagged with
\* its index in the input list; the waves hold nothing else, none of them is
\* empty, and an empty game list yields no waves.
C11_EveryGameOnce ==
    /\ \A i \in 0..(idx - 1) :
          /\ Cardinality(PlacesOf(waves, i)) = 1
          /\ \A p \in PlacesOf(waves, i) : waves[p[1]][p[2]] = <<i, games[i + 1]>>
    /\ \A w \in 1..Len(waves) :
          /\ Len(waves[w]) >= 1
          /\ \A k \in 1..Len(waves[w]) : waves[w][k][1] \in 0..(idx - 1)
    /\ Len(games) = 0 => waves = << >>

\* partition_waves is done with a list of four games that holds the same
\* game twice, and a wave took a second game
C11_Witness ==
    /\ idx = Len(games) /\ idx = 4
    /\ games[1] = games[3]
    /\ Len(waves) = 2 /\ Len(waves[1]) = 2 /\ Len(waves[2]) = 2

\* wave w (0-based) is admissible for the placed game j: every earlier game
\* sharing an entity with j is in a wave before w, and no earlier game of
\* wave w shares an entity with j
Admissible(j, w) ==
    /\ \A i \in 0..(j - 1) :
          Players(games[i + 1]) \cap Players(games[j + 1]) # {}
              => WaveOf(waves, i) < w
    /\ \A i \in 0..(j - 1) :
          WaveOf(waves, i) = w
              => Players(games[i + 1]) \cap Players(games[j + 1]) = {}

\* C12: every placed game is in the earliest admissible wave: its wave is
\* admissible and no wave of a lower index is.
C12_EarliestWave ==
    \A j \in 0..(idx - 1) :
        /\ Admissible(j, WaveOf(waves, j))
        /\ \A w \in 0..(WaveOf(waves, j) - 1) : ~Admissible(j, w)

\* a game went to the first wave although a later wave, holding an earlier
\* game, was disjoint from it as well
C12_Witness ==
    \E i, j \in 0..(idx - 1) :
        /\ i < j /\ WaveOf(waves, j) = 0 /\ WaveOf(waves, i) = 1
        /\ Players(games[i + 1]) \cap Players(games[j + 1]) = {}

\* the games before game j (0-based) that share an entity with it
SharingBefore(j) ==
    { i \in 0..(j - 1) : Players(games[i + 1]) \cap Players(games[j + 1]) # {} }

\* the number of games of the longest chain of games, each sharing an entity
\* with the next, that ends with game j
RECURSIVE ChainTo(_)
ChainTo(j) == 1 + SetMax({0} \cup { ChainTo(i) : i \in SharingBefore(j) })

---------------------------------------------------------------------------
(* Ladder (src/openskill/ladder.py), pure-Python path: a registry is       *)
(* constructed, populated through add and __getitem__, and then takes one  *)
(* rating call (rate or rate_batch); every call is one step.               *)

\* an optional argument of add: None when absent, else Some(value)
None == << >>

Some(value) == <<value>>

\* the Ladder object as one value
Ladder ==
    [max |-> _max, mus |-> _mus, sigmas |-> _sigmas, entity_to_idx |-> _entity_to_idx,
     views |-> _views, size |-> _size]

\* Ladder.__init__: zero-filled arrays of max_entities doubles, empty dicts
NewLadder(max_entities) ==
    [max |-> max_entities,
     mus |-> [i \in 0..(max_entities - 1) |-> 0],
     sigmas |-> [i \in 0..(max_entities - 1) |-> 0],
     entity_to_idx |-> << >>, views |-> << >>, size |-> 0]

\* what the caller can observe of the registry: the registered ids in
\* registration order, the length, and (mu, sigma) of every id
Registry(lad) ==
    [ids |-> lad.entity_to_idx, len |-> lad.size,
     ratings |-> [e \in DOMAIN lad.entity_to_idx |->
                     <<lad.mus[lad.entity_to_idx[e]], lad.sigmas[lad.entity_to_idx[e]]>>]]

\* d[key] = value on a dict
DictSet(d, key, value) ==
    [k \in (DOMAIN d) \cup {key} |-> IF k = key THEN value ELSE d[k]]

\* _register as a registry whose arrays grow with the ids does it: no id is
\* turned away
RegisterUnchecked(lad, entity_id, mu, sigma) ==
    [raised |-> "none",
     lad |-> [lad EXCEPT
                !.entity_to_idx = DictSet(@, entity_id, lad.size),
                !.mus = DictSet(@, lad.size, IF mu # None THEN mu[1] ELSE DefaultMu),
                !.sigmas = DictSet(@, lad.size,
                                   IF sigma # None THEN sigma[1] ELSE DefaultSigma),
                !.views = DictSet(@, entity_id, lad.size),
                !.size = lad.size + 1]]

\* array.array('d') stores a number that converts to a C double; the item
\* assignment raises OverflowError on an int beyond it
DoubleMax == 1000000

Storable(arg) == arg = None \/ arg[1] <= DoubleMax

\* Ladder._register(entity_id, mu, sigma): OverflowError when the arrays are
\* full, else the next index is taken. The statements run in the order of
\* the code: the id is entered in _entity_to_idx, then mu and sigma are
\* stored, then the view is entered and _size is incremented; a store that
\* raises ends the call after the statements before it.
Register(lad, entity_id, mu, sigma) ==
    IF lad.size >= lad.max
    THEN [raised |-> "OverflowError", lad |-> lad]
    ELSE IF ~Storable(mu)
    THEN [raised |-> "OverflowError",
          lad |-> [lad EXCEPT !.entity_to_idx = DictSet(@, entity_id, lad.size)]]
    ELSE IF ~Storable(sigma)
    THEN [raised |-> "OverflowError",
          lad |-> [lad EXCEPT
                     !.entity_to_idx = DictSet(@, entity_id, lad.size),
                     !.mus[lad.size] = IF mu # None THEN mu[1] ELSE DefaultMu]]
    ELSE [raised |-> "none",
          lad |-> [lad EXCEPT
                     !.entity_to_idx = DictSet(@, entity_id, lad.size),
                     !.mus[lad.size] = IF mu # None THEN mu[1] ELSE DefaultMu,
                     !.sigmas[lad.size] = IF sigma # None THEN sigma[1] ELSE DefaultSigma,
                     !.views = DictSet(@, entity_id, lad.size),
                     !.size = lad.size + 1]]

\* `return self._views[entity_id]`: KeyError when the id has no view
ViewLookup(lad, entity_id) ==
    IF entity_id \in DOMAIN lad.views THEN "none" ELSE "KeyError"

\* Ladder.__getitem__(entity_id): registers an unknown id
GetItem(lad, entity_id) ==
    IF entity_id \notin DOMAIN lad.entity_to_idx
    THEN Register(lad, entity_id, None, None)
    ELSE [raised |-> ViewLookup(lad, entity_id), lad |-> lad]

\* add as a registry that registers the id again, known or not
AddRegistersAgain(lad, entity_id, mu, sigma) == Register(lad, entity_id, mu, sigma)

\* add as a registry that resets an omitted field of a known id to the
\* default
AddResetsOmitted(lad, entity_id, mu, sigma) ==
    IF entity_id \in DOMAIN lad.entity_to_idx
    THEN LET i == lad.entity_to_idx[entity_id]
         IN  [raised |-> "none",
              lad |-> [lad EXCEPT
                         !.mus[i] = IF mu # None THEN mu[1] ELSE DefaultMu,
                         !.sigmas[i] = IF sigma # None THEN sigma[1] ELSE DefaultSigma]]
    ELSE Register(lad, entity_id, mu, sigma)

\* Ladder.add(entity_id, mu, sigma): sets what is given on a known id (mu,
\* then sigma; a store that raises ends the call), registers an unknown one
Add(lad, entity_id, mu, sigma) ==
    IF entity_id \in DOMAIN lad.entity_to_idx
    THEN LET i == lad.entity_to_idx[entity_id]
         IN  IF ~Storable(mu)
             THEN [raised |-> "OverflowError", lad |-> lad]
             ELSE IF ~Storable(sigma)
             THEN [raised |-> "OverflowError",
                   lad |-> [lad EXCEPT !.mus[i] = IF mu # None THEN mu[1] ELSE @]]
             ELSE [raised |-> ViewLookup(lad, entity_id),
                   lad |-> [lad EXCEPT
                              !.mus[i] = IF mu # None THEN mu[1] ELSE @,
                              !.sigmas[i] = IF sigma # None THEN sigma[1] ELSE @]]
    ELSE Register(lad, entity_id, mu, sigma)

\* the loop `if eid not in self._entity_to_idx: self._register(eid)` over
\* the ids in order; the first OverflowError ends it, the ids before it stay
RECURSIVE RegisterAll(_, _)
RegisterAll(lad, eids) ==
    IF Len(eids) = 0 THEN [raised |-> "none", lad |-> lad]
    ELSE IF eids[1] \in DOMAIN lad.entity_to_idx THEN RegisterAll(lad, Tail(eids))
    ELSE LET r == CHOOSE x \in { Register(l, eids[1], None, None) : l \in {lad} } : TRUE
         IN  IF r.raised # "none" THEN r ELSE RegisterAll(r.lad, Tail(eids))

\* Ladder._rate_py(teams, ranks): the update of one game on the arrays
RatePy(lad, game, limit) ==
    LET r == RateGameFast(game, lad.entity_to_idx, lad.mus, lad.sigmas, TauSq, limit)
    IN  [raised |-> IF r.raised THEN "IndexError" ELSE "none",
         lad |-> [lad EXCEPT !.mus = r.mus, !.sigmas = r.sigmas]]

\* Ladder.rate(teams, ranks): auto-registration, then the update
Rate(lad, game, limit) ==
    LET reg == CHOOSE r \in {RegisterAll(lad, Concat(game.teams))} : TRUE
    IN  IF reg.raised # "none" THEN reg ELSE RatePy(reg.lad, game, limit)

\* Ladder.rate on each game of a list, one by one; the first error ends it
RECURSIVE RateEach(_, _, _)
RateEach(lad, gs, limit) ==
    IF Len(gs) = 0 THEN [raised |-> "none", lad |-> lad]
    ELSE LET r == CHOOSE x \in { Rate(l, gs[1], limit) : l \in {lad} } : TRUE
         IN  IF r.raised # "none" THEN r ELSE RateEach(r.lad, Tail(gs), limit)

\* the games of a list of waves in the order `for wave in waves: for _, game
\* in wave:` visits them
WaveOrder(ws) == LET flat == Concat(ws) IN [k \in 1..Len(flat) |-> flat[k][2]]

\* Ladder.rate_batch(games): pre-registration of every id, partition_waves,
\* then Ladder.rate on each game, wave by wave
RateBatch(lad, gs, limit) ==
    LET reg == CHOOSE r \in {RegisterAll(lad, EntitySeq(gs))} : TRUE
    IN  IF reg.raised # "none" THEN reg
        ELSE RateEach(reg.lad, WaveOrder(partition_waves(gs)), limit)

\* the RatingView of an id: the arrays of the ladder, the index and the id
\* (`RatingView(self._mus, self._sigmas, idx, entity_id)`); the ladder never
\* rebinds its arrays, so a view is the id and the index it reads
ViewOf(lad, entity_id) == [id |-> entity_id, idx |-> lad.views[entity_id]]

\* view.mu, view.sigma: the arrays of the ladder at the index of the view
ViewReadIn(lad, view) == <<lad.mus[view.idx], lad.sigmas[view.idx]>>

ViewRead(view) == ViewReadIn(Ladder, view)

\* to_dict()[entity_id]
ToDictIn(lad, entity_id) ==
    <<lad.mus[lad.entity_to_idx[entity_id]], lad.sigmas[lad.entity_to_idx[entity_id]]>>

ToDict(entity_id) == ToDictIn(Ladder, entity_id)

\* the call returns (or raises): the object is as the handler left it, and
\* the caller keeps the view it got, if any
Called(op, args, out, ret) ==
    /\ _mus' = out.lad.mus /\ _sigmas' = out.lad.sigmas
    /\ _entity_to_idx' = out.lad.entity_to_idx /\ _views' = out.lad.views
    /\ _size' = out.lad.size
    /\ last_call' = [op |-> op, args |-> args, raised |-> out.raised, ret |-> ret]
    /\ held' = held \cup Range(ret)
    /\ UNCHANGED <<_max, limit_sigma>>

\* `return self._views[entity_id]` when the call did not raise
ReturnedView(out, entity_id) ==
    IF out.raised = "none" THEN Some(ViewOf(out.lad, entity_id)) ELSE None

\* the variables of partition_waves and process are not used by the Ladder
LadderFrame ==
    UNCHANGED <<scoreVars, rateVars, games, waves, waveVars, mode, initial_ratings, partition_fault, pc,
                entity_to_idx, mus, sigmas, wave_q, builder, wpos, wave, todo, futures,
                items, applied, started, written, result>>

\* the ids looked up with ladder[entity_id]
GetItemIds == {1, 2, 4}

\* the (mu, sigma) handed to add: none, or a rating with a low sigma
AddArgs == { <<None, None>>, <<Some(30), Some(2)>> }

\* the (mu, sigma) handed to add in SpecViews: none, one of them, or both
ViewAddArgs ==
    { <<None, None>>, <<Some(30), None>>, <<None, Some(2)>>, <<Some(30), Some(2)>> }

\* the id whose view the caller writes through, and the values it writes
ViewSetId == 4

ViewSetArgs == { <<"mu", 35>>, <<"sigma", 3>> }

\* one-against-one games along a chain of four entities, and a game whose
\* rank list is longer than its team list
LadderGameKinds ==
    { Game(1, 2, <<2, 1>>), Game(2, 3, <<1, 2>>), Game(3, 4, <<1, 1>>),
      Game(3, 4, <<1, 2, 3>>) }

\* the games handed to rate: those of LadderGameKinds, three teams of one
\* under every rank vector over 1..3, and a team of two against a team of
\* one with the second team first
LadderRateKinds ==
    LadderGameKinds
    \cup { [teams |-> << <<1>>, <<2>>, <<3>> >>, ranks |-> r] : r \in [1..3 -> 1..3] }
    \cup { [teams |-> << <<1, 2>>, <<3>> >>, ranks |-> <<2, 1>>] }

Ladder_GetItem(entity_id) ==
    /\ ladder_pc = "open"
    /\ \E out \in {GetItem(Ladder, entity_id)} :
          Called("__getitem__", <<entity_id>>, out, ReturnedView(out, entity_id))
    /\ UNCHANGED ladder_pc
    /\ LadderFrame

Ladder_Add(entity_id, mu, sigma) ==
    /\ ladder_pc = "open"
    /\ \E out \in {Add(Ladder, entity_id, mu, sigma)} :
          Called("add", <<entity_id, mu, sigma>>, out, ReturnedView(out, entity_id))
    /\ UNCHANGED ladder_pc
    /\ LadderFrame

\* view.mu = value / view.sigma = value through a view the caller holds
View_Set(view, field, value) ==
    /\ ladder_pc = "open"
    /\ view \in held
    /\ _mus' = IF field = "mu" THEN [_mus EXCEPT ![view.idx] = value] ELSE _mus
    /\ _sigmas' = IF field = "sigma" THEN [_sigmas EXCEPT ![view.idx] = value] ELSE _sigmas
    /\ last_call' = [op |-> "view." \o field, args |-> <<view, value>>, raised |-> "none",
                     ret |-> None]
    /\ UNCHANGED <<_max, limit_sigma, _entity_to_idx, _views, _size, held, ladder_pc>>
    /\ LadderFrame

Ladder_Rate(game) ==
    /\ ladder_pc = "open"
    /\ \E out \in {Rate(Ladder, game, limit_sigma)} : Called("rate", game, out, None)
    /\ ladder_pc' = "rated"
    /\ LadderFrame

Ladder_RateBatch(gs) ==
    /\ ladder_pc = "open"
    /\ \E out \in {RateBatch(Ladder, gs, limit_sigma)} :
          Called("rate_batch", gs, out, None)
    /\ ladder_pc' = "rated"
    /\ LadderFrame

Next ==
    \/ \E e \in GetItemIds : Ladder_GetItem(e)
    \/ \E a \in AddArgs : Ladder_Add(2, a[1], a[2])
    \/ \E g \in LadderGameKinds : Ladder_Rate(g)
    \/ \E gs \in SeqsUpTo(LadderGameKinds, MaxBatchGames) : Ladder_RateBatch(gs)

\* Ladder(model, max_entities) for a model with limit_sigma on or off and
\* max_entities one of `capacities`
InitLadder(capacities) ==
    /\ \E m \in capacities :
          /\ _max = m
          /\ _mus = NewLadder(m).mus /\ _sigmas = NewLadder(m).sigmas
    /\ _entity_to_idx = << >> /\ _views = << >> /\ _size = 0
    /\ ladder_pc = "open" /\ last_call = << >> /\ held = {}
    /\ RateIdle
    /\ ScoresIdle
    /\ games = << >> /\ waves = << >> /\ WavesIdle
    /\ mode = [n_workers |-> 1, pipeline |-> FALSE, use_threads |-> FALSE]
    /\ limit_sigma \in BOOLEAN /\ initial_ratings = << >> /\ partition_fault = FALSE
    /\ pc = "idle" /\ entity_to_idx = << >> /\ mus = << >> /\ sigmas = << >>
    /\ wave_q = << >> /\ builder = "none" /\ wpos = 0 /\ wave = << >> /\ todo = << >>
    /\ futures = << >> /\ items = << >> /\ applied = 0
    /\ started = {} /\ written = {} /\ result = << >>

Init == InitLadder((MaxCapacity - 1)..MaxCapacity)

Spec == Init /\ [][Next]_vars

\* SpecViews: the same Ladder under calls that hand out views, update known
\* ids field by field, write through a view, and rate games of two and three
\* teams; rate_batch takes one of a few game lists
ViewBatchKinds ==
    { << Game(1, 2, <<2, 1>>), Game(3, 4, <<1, 1>>) >>,
      << Game(2, 3, <<1, 2>>), Game(1, 2, <<2, 1>>), Game(3, 4, <<1, 1>>) >>,
      << Game(1, 2, <<2, 1>>), Game(3, 4, <<1, 2, 3>>) >> }

NextViews ==
    \/ \E e \in GetItemIds : Ladder_GetItem(e)
    \/ \E a \in ViewAddArgs : Ladder_Add(2, a[1], a[2])
    \/ \E v \in { h \in held : h.id = ViewSetId } : \E a \in ViewSetArgs :
          View_Set(v, a[1], a[2])
    \/ \E g \in LadderRateKinds : Ladder_Rate(g)
    \/ \E gs \in ViewBatchKinds : Ladder_RateBatch(gs)

\* a capacity that lookups alone can fill, and one that holds every id
InitViews == InitLadder({MaxCapacity - 2, MaxCapacity})

SpecViews == InitViews /\ [][NextViews]_vars

\* SpecRegistry: the same Ladder under lookups, rating calls, and add with
\* every combination of an omitted value, a rating, and an int that
\* array.array('d') does not take
RegistryAddArgs ==
    { <<mu, sigma>> : mu \in {None, Some(30), Some(DoubleMax + 1)},
                      sigma \in {None, Some(2), Some(DoubleMax + 1)} }

RegistryAddIds == {2, 4}

NextRegistry ==
    \/ \E e \in GetItemIds : Ladder_GetItem(e)
    \/ \E e \in RegistryAddIds : \E a \in RegistryAddArgs : Ladder_Add(e, a[1], a[2])
    \/ \E g \in LadderGameKinds : Ladder_Rate(g)
    \/ \E gs \in ViewBatchKinds : Ladder_RateBatch(gs)

SpecRegistry == InitViews /\ [][NextRegistry]_vars

\* this step is a rating call `op` of the Ladder
RatingCall(op) ==
    ladder_pc = "open" /\ ladder_pc' = "rated" /\ last_call'.op = op

\* C3: a rate_batch call that returns leaves the registry as calling rate on
\* each game one by one in input order leaves it: the same ids, the same
\* length, the same (mu, sigma) for every id.
C3_BatchMatchesSequential ==
    [][(RatingCall("rate_batch") /\ last_call'.raised = "none")
          => \A one_by_one \in {RateEach(Ladder, last_call'.args, limit_sigma)} :
                Registry(Ladder)' = Registry(one_by_one.lad)]_vars

\* rate_batch has returned from three games that it did not run in input
\* order, on a registry that held an entity with a low sigma
C3_Witness ==
    /\ ladder_pc = "rated" /\ last_call.op = "rate_batch" /\ last_call.raised = "none"
    /\ Len(last_call.args) = 3
    /\ WaveOrder(partition_waves(last_call.args)) # last_call.args
    /\ limit_sigma /\ \E e \in DOMAIN _entity_to_idx : _sigmas[_entity_to_idx[e]] = 2

\* the registry after every id is registered and the first k waves are
\* applied
AppliedThrough(lad, gs, k, limit) ==
    RateEach(RegisterAll(lad, EntitySeq(gs)).lad,
             WaveOrder(SubSeq(partition_waves(gs), 1, k)), limit)

\* C7: when a game fails in rate_batch, the registry holds the result of a
\* whole number of waves: no wave is applied in part.
C7_NoPartialWave ==
    [][(RatingCall("rate_batch") /\ last_call'.raised = "IndexError")
          => \E k \in 0..Len(partition_waves(last_call'.args)) :
                \E through \in {AppliedThrough(Ladder, last_call'.args, k, limit_sigma)} :
                    /\ through.raised = "none"
                    /\ Registry(Ladder)' = Registry(through.lad)]_vars

\* C10: a rate call that raises leaves the registry as it was before the
\* call: the same ids, the same length, the same (mu, sigma) for every id.
C10_FailedRateLeavesRegistry ==
    [][(RatingCall("rate") /\ last_call'.raised # "none")
          => Registry(Ladder)' = Registry(Ladder)]_vars

\* C16: after every call, every view the caller holds reads the (mu, sigma)
\* the ladder holds for the id of the view, as to_dict gives them; and the
\* value written through a view is the value the ladder then holds.
C16_ViewsTrackLadder ==
    [][/\ \A v \in held' :
            /\ v.id \in DOMAIN _entity_to_idx'
            /\ ViewReadIn(Ladder', v) = ToDictIn(Ladder', v.id)
       /\ last_call'.op = "view.mu"
            => ToDictIn(Ladder', last_call'.args[1].id)[1] = last_call'.args[2]
       /\ last_call'.op = "view.sigma"
            => ToDictIn(Ladder', last_call'.args[1].id)[2] = last_call'.args[2]]_vars

\* the caller wrote a mu through the view of an id and then rated a game of
\* that id: the view it holds reads a mu that is neither the default nor the
\* one written
C16_Witness ==
    /\ ladder_pc = "rated" /\ last_call.op = "rate" /\ last_call.raised = "none"
    /\ ViewSetId \in Players(last_call.args)
    /\ \E v \in held : v.id = ViewSetId /\ ViewRead(v)[1] \notin {DefaultMu, 35}

\* the ids a call of the Ladder names
IdsOfCall(call) ==
    IF call.op \in {"__getitem__", "add"} THEN {call.args[1]}
    ELSE IF call.op = "rate" THEN Players(call.args)
    ELSE IF call.op = "rate_batch"
         THEN UNION { Players(call.args[k]) : k \in 1..Len(call.args) }
    ELSE {}

\* C17: the ladder never holds more than max_entities ids, and a call that
\* names more new ids than the ladder has room for raises OverflowError.
C17_CapacityRespected ==
    [][/\ _size' <= _max'
       /\ Cardinality(DOMAIN _entity_to_idx') = _size'
       /\ Cardinality(IdsOfCall(last_call') \ DOMAIN _entity_to_idx) > _max - _size
            => last_call'.raised = "OverflowError"]_vars

\* a lookup of a new id on a full ladder raised OverflowError
C17_Witness ==
    /\ last_call # << >> /\ last_call.op = "__getitem__"
    /\ last_call.raised = "OverflowError"
    /\ _size = _max /\ last_call.args[1] \notin DOMAIN _entity_to_idx

\* C18: add on a registered id sets the fields given and nothing else: the
\* omitted field, the index of the id, the length, the views and every other
\* slot are as before, and the call returns the view the ladder already had.
C18_AddUpdatesGivenFields ==
    [][(last_call'.op = "add" /\ last_call'.args[1] \in DOMAIN _entity_to_idx)
          => LET e == last_call'.args[1]
                 mu == last_call'.args[2]
                 sigma == last_call'.args[3]
                 i == _entity_to_idx[e]
             IN  /\ _mus'[i] = IF mu # None THEN mu[1] ELSE _mus[i]
                 /\ _sigmas'[i] = IF sigma # None THEN sigma[1] ELSE _sigmas[i]
                 /\ \A k \in (DOMAIN _mus) \ {i} :
                       _mus'[k] = _mus[k] /\ _sigmas'[k] = _sigmas[k]
                 /\ _entity_to_idx' = _entity_to_idx
                 /\ _size' = _size
                 /\ _views' = _views
                 /\ last_call'.raised = "none"
                 /\ last_call'.ret = Some(ViewOf(Ladder, e))]_vars

\* add gave a mu alone to an id registered third whose sigma an earlier add
\* had set: the sigma is still the one set
C18_Witness ==
    /\ last_call # << >> /\ last_call.op = "add"
    /\ last_call.args = <<2, Some(30), None>>
    /\ 2 \in DOMAIN _entity_to_idx /\ _entity_to_idx[2] = 2
    /\ ToDict(2) = <<30, 2>>

---------------------------------------------------------------------------
(* Model.rate (src/openskill/models/weng_lin): PlackettLuce.rate and       *)
(* BradleyTerryPart.rate on Rating objects held by the caller.  A Rating   *)
(* object is an id into `heap`; teams are lists of lists of object ids, so *)
(* that a write onto an object and the identity of a returned object are   *)
(* visible.  The teams handed in hold distinct objects.  Absent ranks or   *)
(* scores are the empty list (None and [] are both falsy in `if ranks:`).  *)

\* most rate calls made on one Model
MaxRateCalls == 2

\* _unary_minus over the scores
Negate(scores) == [k \in 1..Len(scores) |-> 0 - scores[k]]

\* _unwind as a sort that hands back the sorted tenet in place of the
\* original positions
UnwindKeepsTenet(tenet, objects) ==
    LET order == SortedOrder(tenet, 0..(Len(objects) - 1))
    IN  [objects |-> Permute(objects, order), tenet |-> Permute(tenet, order)]

\* _unwind(tenet, objects): the objects in ascending order of their tenet
\* (list.sort is stable), and the 0-based original position of each
Unwind(tenet, objects) ==
    LET order == SortedOrder(tenet, 0..(Len(objects) - 1))
    IN  [objects |-> Permute(objects, order), tenet |-> order]

\* the (mu, sigma) of the objects of the teams
Deref(h, teams) ==
    [t \in 1..Len(teams) |-> [p \in 1..Len(teams[t]) |-> h[teams[t][p]]]]

\* the heap after vals[k] is written onto the object objs[k], for k in order
Store(h, objs, vals) ==
    [o \in DOMAIN h |->
        LET at == { k \in 1..Len(objs) : objs[k] = o }
        IN  IF at = {} THEN h[o] ELSE vals[SetMax(at)]]

\* the loop `teams[team_index][player_index].sigma = math.sqrt(sigma ** 2 +
\* tau_squared)` over the objects of the teams
Inflate(h, teams) ==
    [o \in DOMAIN h |->
        IF o \in Range(Concat(teams))
        THEN [h[o] EXCEPT !.sigma = Sqrt(h[o].sigma * h[o].sigma + TauSq)]
        ELSE h[o]]

\* copy.deepcopy(teams): fresh objects with the values of the old ones
DeepCopy(h, teams) ==
    LET objs == Concat(teams)
    IN  [heap |-> h \o [k \in 1..Len(objs) |-> h[objs[k]]],
         teams |-> [t \in 1..Len(teams) |->
                      [p \in 1..Len(teams[t]) |->
                          Len(h) + Len(Concat(SubSeq(teams, 1, t - 1))) + p]]]

\* model._compute(teams, ranks) on objects: the new (mu, sigma) of every
\* player is written onto the object passed in (`modified_player =
\* original_teams[i][j]`), and the result lists those same objects; without
\* ranks, _calculate_rankings ranks the teams by position
ComputeOn(h, teams, ranks) ==
    LET rk == IF ranks # << >> THEN ranks ELSE [k \in 1..Len(teams) |-> k - 1]
    IN  Store(h, Concat(teams), Concat(Compute(Deref(h, teams), rk)))

\* the loop of limit_sigma over the result: the sigma of a returned object
\* is capped by the sigma its position had in original_teams
Clamp(h, teams, original) ==
    Store(h, Concat(teams),
          [k \in 1..Len(Concat(teams)) |->
              LET now == h[Concat(teams)[k]]
                  was == Concat(original)[k]
              IN  IF now.sigma <= was.sigma THEN now
                  ELSE [now EXCEPT !.sigma = was.sigma]])

\* the argument checks of rate: _check_teams, the length of ranks and of
\* scores, and ranks together with scores
RateArgsRaise(teams, ranks, scores) ==
    \/ Len(teams) < 2
    \/ \E t \in 1..Len(teams) : Len(teams[t]) < 1
    \/ ranks # << >> /\ Len(ranks) # Len(teams)
    \/ ranks # << >> /\ scores # << >>
    \/ scores # << >> /\ Len(scores) # Len(teams)

\* the part rate shares between the two models, from the conversion of the
\* scores to the unwound result: the heap after _compute and the objects of
\* the result in the order of the teams handed in
SortComputeUnwind(h, teams, ranks, scores) ==
    LET rk == IF ranks = << >> /\ scores # << >> THEN Negate(scores) ELSE ranks
    IN  IF rk # << >>
        THEN LET unwound == Unwind(rk, teams)
                 sorted_ranks == Permute(rk, Order(rk))
             IN  [heap |-> ComputeOn(h, unwound.objects, sorted_ranks),
                  processed_result |-> Unwind(unwound.tenet, unwound.objects).objects]
        ELSE [heap |-> ComputeOn(h, teams, << >>), processed_result |-> teams]

\* PlackettLuce.rate(teams, ranks, scores, limit_sigma) of a Model whose
\* limit_sigma is self_limit: tau is applied to the objects handed in,
\* _compute writes onto them, and the clamp runs `if limit_sigma:` on the
\* argument of the call
PlackettLuceRate(h, self_limit, teams, ranks, scores, limit) ==
    IF RateArgsRaise(teams, ranks, scores)
    THEN [raised |-> "ValueError", heap |-> h, ret |-> << >>, limit_sigma |-> self_limit]
    ELSE LET original_teams == Deref(h, teams)
             done == SortComputeUnwind(Inflate(h, teams), teams, ranks, scores)
         IN  [raised |-> "none",
              heap |-> IF limit = Some(TRUE)
                       THEN Clamp(done.heap, done.processed_result, original_teams)
                       ELSE done.heap,
              ret |-> done.processed_result,
              limit_sigma |-> self_limit]

\* BradleyTerryPart.rate(teams, ranks, scores, limit_sigma): the teams are
\* deep-copied first and the copies are rated; `if limit_sigma is not None:
\* self.limit_sigma = limit_sigma`, then the clamp runs `if self.limit_sigma:`
BradleyTerryPartRate(h, self_limit, teams, ranks, scores, limit) ==
    IF RateArgsRaise(teams, ranks, scores)
    THEN [raised |-> "ValueError", heap |-> h, ret |-> << >>, limit_sigma |-> self_limit]
    ELSE LET original_teams == Deref(h, teams)
             copy == DeepCopy(h, teams)
             done == SortComputeUnwind(Inflate(copy.heap, copy.teams), copy.teams,
                                       ranks, scores)
             now_limit == IF limit # None THEN limit[1] ELSE self_limit
         IN  [raised |-> "none",
              heap |-> IF now_limit
                       THEN Clamp(done.heap, done.processed_result, original_teams)
                       ELSE done.heap,
              ret |-> done.processed_result,
              limit_sigma |-> now_limit]

\* the caller's Rating objects 1..3: one at the defaults (its sigma shrinks
\* in a game) and two at a low sigma (tau makes it grow)
RateHeaps ==
    { << [mu |-> 30, sigma |-> 2], [mu |-> DefaultMu, sigma |-> DefaultSigma],
         [mu |-> 20, sigma |-> 2] >> }

\* the teams handed to rate: two or three teams of the caller's objects
RateTeamKinds ==
    { << <<1>>, <<2>> >>, << <<1>>, <<2>>, <<3>> >>, << <<1, 2>>, <<3>> >> }

\* the calls of rate: every rank vector over 1..n for n teams and no ranks
\* at all, scores for two teams, an override of limit_sigma with some rank
\* vectors, and two calls that fail the argument checks
RateCallKinds ==
    UNION { { [teams |-> tm, ranks |-> r, scores |-> << >>, limit |-> None] :
                r \in [1..Len(tm) -> 1..Len(tm)] \cup { << >> } } :
            tm \in RateTeamKinds }
    \cup { [teams |-> << <<1>>, <<2>> >>, ranks |-> << >>, scores |-> sc, limit |-> None] :
             sc \in [1..2 -> 0..1] }
    \cup { [teams |-> tm, ranks |-> [k \in 1..Len(tm) |-> Len(tm) + 1 - k],
            scores |-> << >>, limit |-> Some(b)] :
             tm \in RateTeamKinds, b \in BOOLEAN }
    \cup { [teams |-> << <<1>>, <<2>> >>, ranks |-> <<1, 2, 3>>, scores |-> << >>,
            limit |-> None],
           [teams |-> << <<1>>, <<2>> >>, ranks |-> <<1, 2>>, scores |-> <<1, 0>>,
            limit |-> None] }

\* rate returns (or raises): the objects and the Model are as it left them
RateCalled(call, out) ==
    /\ heap' = out.heap
    /\ limit_sigma' = out.limit_sigma
    /\ calls' = calls + 1
    /\ last_rate' = [call |-> call, raised |-> out.raised, ret |-> out.ret,
                     before |-> heap, limit_sigma |-> limit_sigma]
    /\ UNCHANGED <<scoreVars, kind, ladderVars, games, waves, waveVars, mode, initial_ratings,
                   partition_fault, pc, entity_to_idx, mus, sigmas, wave_q, builder,
                   wpos, wave, todo, futures, items, applied, started, written, result>>

PlackettLuce_Rate(call) ==
    /\ kind = "PlackettLuce" /\ calls < MaxRateCalls
    /\ \E out \in {PlackettLuceRate(heap, limit_sigma, call.teams, call.ranks,
                                    call.scores, call.limit)} : RateCalled(call, out)

BradleyTerryPart_Rate(call) ==
    /\ kind = "BradleyTerryPart" /\ calls < MaxRateCalls
    /\ \E out \in {BradleyTerryPartRate(heap, limit_sigma, call.teams, call.ranks,
                                        call.scores, call.limit)} : RateCalled(call, out)

NextRate ==
    \/ \E call \in RateCallKinds : PlackettLuce_Rate(call)
    \/ \E call \in RateCallKinds : BradleyTerryPart_Rate(call)

\* a Model of either class, constructed with limit_sigma on or off, and a
\* caller holding three Rating objects
InitRate ==
    /\ kind \in {"PlackettLuce", "BradleyTerryPart"}
    /\ heap \in RateHeaps
    /\ calls = 0 /\ last_rate = << >>
    /\ limit_sigma \in BOOLEAN
    /\ LadderIdle
    /\ ScoresIdle
    /\ games = << >> /\ waves = << >> /\ WavesIdle
    /\ mode = [n_workers |-> 1, pipeline |-> FALSE, use_threads |-> FALSE]
    /\ initial_ratings = << >> /\ partition_fault = FALSE
    /\ pc = "idle" /\ entity_to_idx = << >> /\ mus = << >> /\ sigmas = << >>
    /\ wave_q = << >> /\ builder = "none" /\ wpos = 0 /\ wave = << >> /\ todo = << >>
    /\ futures = << >> /\ items = << >> /\ applied = 0
    /\ started = {} /\ written = {} /\ result = << >>

SpecRate == InitRate /\ [][NextRate]_vars

\* the last rate call returned
RateReturned == last_rate # << >> /\ last_rate.raised = "none"

\* the Rating objects the caller handed to the last rate call
RateInputs == Range(Concat(last_rate.call.teams))

\* C13: when limit_sigma is in effect for a rate call (passed true, or not
\* passed and true on the Model), the sigma of every returned player is at
\* most the sigma the player handed in at its position had before the call.
C13_SigmaNeverGrows ==
    (/\ RateReturned
     /\ \/ last_rate.call.limit = Some(TRUE)
        \/ last_rate.call.limit = None /\ last_rate.limit_sigma)
        => \A t \in 1..Len(last_rate.ret) : \A p \in 1..Len(last_rate.ret[t]) :
              heap[last_rate.ret[t][p]].sigma
                  <= last_rate.before[last_rate.call.teams[t][p]].sigma

\* C14: a rate call leaves the Rating objects handed in as they were, and
\* the Rating objects it returns are none of them.
C14_InputsUntouched ==
    RateReturned =>
        /\ \A o \in RateInputs : heap[o] = last_rate.before[o]
        /\ Range(Concat(last_rate.ret)) \cap RateInputs = {}

\* C15: a rate call leaves the limit_sigma of the Model as it was
\* constructed, whatever limit_sigma the call was given.
C15_ModelConfigUnchanged ==
    [][calls' = calls + 1 => limit_sigma' = limit_sigma]_vars

\* a game of the fast path as a call of model.rate: object k is the k-th
\* player of the game, team by team, with the rating the ladder holds for it
FastAsRate(lad, game) ==
    LET ents == Concat(game.teams)
    IN  [heap |-> [k \in 1..Len(ents) |->
                      [mu |-> lad.mus[lad.entity_to_idx[ents[k]]],
                       sigma |-> lad.sigmas[lad.entity_to_idx[ents[k]]]]],
         teams |-> [t \in 1..Len(game.teams) |->
                      [p \in 1..Len(game.teams[t]) |->
                          Len(Concat(SubSeq(game.teams, 1, t - 1))) + p]]]

\* C19: the sort by rank is undone.  For a game handed to Ladder.rate,
\* model.rate on the same ratings returns the teams in the order handed in,
\* the fast path leaves for the entity at every team and player position the
\* rating model.rate returns at that position, and _unwind with the tenet it
\* returned puts the sorted teams back in the order handed in.
C19_RankSortUndone ==
    [][(RatingCall("rate") /\ last_call'.raised = "none")
          => \A reg \in {RegisterAll(Ladder, Concat(last_call'.args.teams)).lad} :
             \A call \in {FastAsRate(reg, last_call'.args)} :
             \A ref \in {PlackettLuceRate(call.heap, limit_sigma, call.teams,
                                          last_call'.args.ranks, << >>,
                                          IF limit_sigma THEN Some(TRUE) ELSE None)} :
             \A sorted \in {Unwind(last_call'.args.ranks, last_call'.args.teams)} :
                /\ ref.raised = "none"
                /\ ref.ret = call.teams
                /\ \A t \in 1..Len(call.teams) : \A p \in 1..Len(call.teams[t]) :
                      ToDictIn(Ladder', last_call'.args.teams[t][p])
                          = <<ref.heap[ref.ret[t][p]].mu, ref.heap[ref.ret[t][p]].sigma>>
                /\ Unwind(sorted.tenet, sorted.objects).objects
                      = last_call'.args.teams]_vars

\* rate returned from a game of three teams whose ranks are neither sorted
\* nor the reverse of sorted, the first team last
C19_Witness ==
    /\ ladder_pc = "rated" /\ last_call.op = "rate" /\ last_call.raised = "none"
    /\ last_call.args.ranks = <<3, 1, 2>>
    /\ ToDict(1)[1] < ToDict(2)[1]

---------------------------------------------------------------------------
(* SpecScores: the conversion of scores to ranks in the fast path          *)
(* (Ladder._rate_py, BatchProcessor._rate_game_fast), applied to every     *)
(* list of integer scores of two to MaxScoreTeams teams.                   *)

\* most teams of a game given scores
MaxScoreTeams == 3

\* highest score of a team
MaxScore == 3

\* `ranks = list(map(lambda sc: -sc, scores)); ranks =
\* model._calculate_rankings(team_objs, ranks)`
ScoresToRanks(n_teams, team_scores) == CalculateRankings(n_teams, Negate(team_scores))

\* the step `if not ranks and scores:` of a game that has scores and no
\* ranks
Fast_ScoresToRanks ==
    /\ fast_scores # << >> /\ rank_indices = << >>
    /\ rank_indices' = ScoresToRanks(Len(fast_scores), fast_scores)
    /\ UNCHANGED <<fast_scores, pureVars, rateVars, ladderVars, games, waves, waveVars,
                   batchVars>>

NextScores == Fast_ScoresToRanks

\* a game of two to MaxScoreTeams teams with a score for each, in any order
InitScores ==
    /\ fast_scores \in UNION { [1..n -> 0..MaxScore] : n \in 2..MaxScoreTeams }
    /\ rank_indices = << >>
    /\ PureIdle
    /\ RateIdle
    /\ LadderIdle
    /\ BatchIdle
    /\ games = << >> /\ waves = << >> /\ WavesIdle

SpecScores == InitScores /\ [][NextScores]_vars

\* C20: the rank indices the fast path converts the scores of a game to give
\* a team with a strictly higher score a strictly lower index, and teams with
\* equal scores the same index, whatever the order of the teams.
C20_ScoresToRanks ==
    rank_indices # << >> =>
        \A i, j \in 1..Len(fast_scores) :
            /\ fast_scores[i] > fast_scores[j] => rank_indices[i] < rank_indices[j]
            /\ fast_scores[i] = fast_scores[j] => rank_indices[i] = rank_indices[j]

---------------------------------------------------------------------------
(* SpecFast: Ladder.rate on the pure-Python path for one valid game given  *)
(* ranks, scores or neither, next to model.rate on ratings with the same   *)
(* starting values.  Absent ranks or scores are the empty list.            *)

\* `if not ranks and scores: ranks = list(map(lambda sc: -sc, scores));
\* ranks = model._calculate_rankings(team_objs, ranks)`
FastRanks(game) ==
    IF game.ranks = << >> /\ game.scores # << >>
    THEN ScoresToRanks(Len(game.teams), game.scores)
    ELSE game.ranks

\* Ladder._rate_py(teams, ranks, scores): the conversion of the scores, the
\* sort by rank under `if ranks is not None:`, _compute and the write-back;
\* without ranks _compute ranks the teams by position
RatePyScored(lad, game, limit) ==
    LET ranks == FastRanks(game)
        team_indices == TeamIndices(game.teams, lad.entity_to_idx)
        team_sigmas == Snapshot(team_indices, lad.sigmas)
    IN  IF ranks # << >>
        THEN RatePy(lad, [teams |-> game.teams, ranks |-> ranks], limit)
        ELSE LET res == Compute(FastTeams(Snapshot(team_indices, lad.mus),
                                          team_sigmas, TauSq),
                                [k \in 1..Len(game.teams) |-> k - 1])
                 w == WriteBack(Flatten(res, team_indices, team_sigmas),
                                lad.mus, lad.sigmas, limit)
             IN  [raised |-> "none",
                  lad |-> [lad EXCEPT !.mus = w.mus, !.sigmas = w.sigmas]]

\* Ladder.rate(teams, ranks, scores): auto-registration, then the update
RateScored(lad, game, limit) ==
    LET reg == CHOOSE r \in {RegisterAll(lad, Concat(game.teams))} : TRUE
    IN  IF reg.raised # "none" THEN reg ELSE RatePyScored(reg.lad, game, limit)

\* the valid games handed to rate: two or three teams with every rank vector
\* over 1..2, every score vector over 0..2, or neither
FastTeamKinds == { << <<1>>, <<2>> >>, << <<1>>, <<2>>, <<3>> >>, << <<1, 2>>, <<3>> >> }

FastGameKinds ==
    UNION { { [teams |-> tm, ranks |-> r, scores |-> << >>] :
                r \in [1..Len(tm) -> 1..2] \cup { << >> } }
            \cup { [teams |-> tm, ranks |-> << >>, scores |-> sc] :
                     sc \in [1..Len(tm) -> 0..2] } :
            tm \in FastTeamKinds }

Ladder_RateScored(game) ==
    /\ ladder_pc = "open"
    /\ \E out \in {RateScored(Ladder, game, limit_sigma)} : Called("rate", game, out, None)
    /\ ladder_pc' = "rated"
    /\ LadderFrame

NextFast ==
    \/ \E e \in 1..3 : \E a \in AddArgs : Ladder_Add(e, a[1], a[2])
    \/ \E g \in FastGameKinds : Ladder_RateScored(g)

SpecFast == InitLadder({MaxCapacity}) /\ [][NextFast]_vars

\* C21: Ladder.rate on the pure-Python path leaves for the player at every
\* team and player position of a valid game (ranks, scores or neither) the
\* (mu, sigma) that model.rate returns at that position for ratings with the
\* same starting values.
C21_FastMatchesModelRate ==
    [][(RatingCall("rate") /\ last_call'.raised = "none")
          => \A reg \in {RegisterAll(Ladder, Concat(last_call'.args.teams)).lad} :
             \A call \in {FastAsRate(reg, last_call'.args)} :
             \A ref \in {BradleyTerryPartRate(call.heap, limit_sigma, call.teams,
                                              last_call'.args.ranks,
                                              last_call'.args.scores, None)} :
                /\ ref.raised = "none"
                /\ \A t \in 1..Len(call.teams) : \A p \in 1..Len(call.teams[t]) :
                      ToDictIn(Ladder', last_call'.args.teams[t][p])
                          = <<ref.heap[ref.ret[t][p]].mu, ref.heap[ref.ret[t][p]].sigma>>]_vars

---------------------------------------------------------------------------
(* SpecSigma: the Ladder under calls that hand it any sigma: add with a    *)
(* sigma of zero or above, writes of sigma through a view, lookups and one *)
(* rating call.                                                            *)

\* the sigma handed to add: none, zero, or a low positive one
SigmaAddArgs == { None, Some(0), Some(2) }

\* the sigma written through a view
SigmaSetArgs == { 0 - 1, 3 }

NextSigma ==
    \/ \E e \in GetItemIds : Ladder_GetItem(e)
    \/ \E e \in 1..2 : \E sg \in SigmaAddArgs : Ladder_Add(e, None, sg)
    \/ \E v \in held : \E sg \in SigmaSetArgs : View_Set(v, "sigma", sg)
    \/ \E g \in LadderGameKinds : Ladder_Rate(g)

SpecSigma == InitLadder({MaxCapacity}) /\ [][NextSigma]_vars

\* C22: after any sequence of registry operations (add, lookups, writes
\* through a view, a rating call) every registered sigma is positive.
C22_SigmaPositive ==
    \A e \in DOMAIN _entity_to_idx : ToDict(e)[2] > 0

---------------------------------------------------------------------------
(* SpecTau: model.rate called with and without the argument tau.  The tau  *)
(* of the Model is the root of TauSq.                                      *)

\* self.tau
SelfTau == Sqrt(TauSq)

\* `tau = tau if tau else self.tau`: a tau of None or of zero is falsy
CallTau(tau, self_tau) == IF tau # None /\ tau[1] # 0 THEN tau[1] ELSE self_tau

\* `tau_squared = tau * tau` and the loop `sigma = math.sqrt(sigma ** 2 +
\* tau_squared)` over the objects of the teams
InflateBy(h, teams, tau) ==
    [o \in DOMAIN h |->
        IF o \in Range(Concat(teams))
        THEN [h[o] EXCEPT !.sigma = Sqrt(h[o].sigma * h[o].sigma + tau * tau)]
        ELSE h[o]]

\* PlackettLuce.rate(teams, ranks, tau=tau) of a Model whose tau is self_tau
\* and whose limit_sigma is self_limit
PlackettLuceRateTau(h, self_limit, self_tau, teams, ranks, tau) ==
    IF RateArgsRaise(teams, ranks, << >>)
    THEN [raised |-> "ValueError", heap |-> h, ret |-> << >>, limit_sigma |-> self_limit]
    ELSE LET done == SortComputeUnwind(InflateBy(h, teams, CallTau(tau, self_tau)),
                                       teams, ranks, << >>)
         IN  [raised |-> "none", heap |-> done.heap, ret |-> done.processed_result,
              limit_sigma |-> self_limit]

\* BradleyTerryPart.rate(teams, ranks, tau=tau): the same on deep copies,
\* with the clamp of `if self.limit_sigma:`
BradleyTerryPartRateTau(h, self_limit, self_tau, teams, ranks, tau) ==
    IF RateArgsRaise(teams, ranks, << >>)
    THEN [raised |-> "ValueError", heap |-> h, ret |-> << >>, limit_sigma |-> self_limit]
    ELSE LET original_teams == Deref(h, teams)
             copy == DeepCopy(h, teams)
             done == SortComputeUnwind(InflateBy(copy.heap, copy.teams,
                                                 CallTau(tau, self_tau)),
                                       copy.teams, ranks, << >>)
         IN  [raised |-> "none",
              heap |-> IF self_limit
                       THEN Clamp(done.heap, done.processed_result, original_teams)
                       ELSE done.heap,
              ret |-> done.processed_result,
              limit_sigma |-> self_limit]

\* the tau handed to rate: none, zero, the tau of the Model, or a larger one
TauArgs == { None, Some(0), Some(SelfTau), Some(SelfTau + 2) }

\* the calls of rate: two or three teams, ranked in order, in reverse or not
\* at all, under every tau of TauArgs
TauCallKinds ==
    { [teams |-> tm, ranks |-> r, tau |-> t] :
        tm \in RateTeamKinds, t \in TauArgs,
        r \in { << >>, <<1, 2, 3>>, <<2, 1>>, <<3, 2, 1>>, <<1, 2>> } }

PlackettLuce_RateTau(call) ==
    /\ kind = "PlackettLuce" /\ calls < MaxRateCalls
    /\ \E out \in {PlackettLuceRateTau(heap, limit_sigma, SelfTau, call.teams,
                                       call.ranks, call.tau)} : RateCalled(call, out)

BradleyTerryPart_RateTau(call) ==
    /\ kind = "BradleyTerryPart" /\ calls < MaxRateCalls
    /\ \E out \in {BradleyTerryPartRateTau(heap, limit_sigma, SelfTau, call.teams,
                                           call.ranks, call.tau)} : RateCalled(call, out)

NextTau ==
    \/ \E call \in TauCallKinds : PlackettLuce_RateTau(call)
    \/ \E call \in TauCallKinds : BradleyTerryPart_RateTau(call)

SpecTau == InitRate /\ [][NextTau]_vars

\* the ratings a rate call returns, team by team
Returned_Ratings(h, ret) == Deref(h, ret)

\* C23: a rate call given a tau returns what the same call without tau
\* returns on a Model whose tau is the value given, for every value given,
\* zero included.
C23_CallTauUsed ==
    (RateReturned /\ last_rate.call.tau # None) =>
        \A ref \in { IF kind = "PlackettLuce"
                     THEN PlackettLuceRateTau(last_rate.before, last_rate.limit_sigma,
                                              last_rate.call.tau[1], last_rate.call.teams,
                                              last_rate.call.ranks, None)
                     ELSE BradleyTerryPartRateTau(last_rate.before, last_rate.limit_sigma,
                                                  last_rate.call.tau[1],
                                                  last_rate.call.teams,
                                                  last_rate.call.ranks, None) } :
           Returned_Ratings(heap, last_rate.ret) = Returned_Ratings(ref.heap, ref.ret)

---------------------------------------------------------------------------
(* SpecRankings: _calculate_rankings on a rank vector sorted ascending.  A *)
(* rank is its value and its Python type: [val |-> 2, int |-> FALSE] is    *)
(* the float 2.0.                                                          *)

\* most teams of a game handed to _calculate_rankings
MaxRankTeams == 3

\* highest rank value
MaxRank == 3

\* the list team_scores: `if isinstance(ranks[index], int):
\* team_scores.append(ranks[index]) else: team_scores.append(index)`
TeamScores(n_teams, ranks) ==
    [k \in 1..n_teams |-> IF ranks[k].int THEN ranks[k].val ELSE k - 1]

\* _calculate_rankings(game, ranks) for ranks of either type
CalculateRankingsTyped(n_teams, ranks) ==
    LET team_scores == TeamScores(n_teams, ranks)
    IN  [k \in 1..n_teams |-> RankingAt(team_scores, k - 1)]

\* the call model._calculate_rankings(game, ranks)
Calculate_Rankings ==
    /\ team_ranks # << >> /\ rank_output = << >>
    /\ rank_output' = CalculateRankingsTyped(Len(team_ranks), team_ranks)
    /\ UNCHANGED <<team_ranks, part_teams, part_out, predict_teams, predictions,
                   fast_scores, rank_indices, rateVars, ladderVars, games, waves,
                   waveVars, batchVars>>

NextRankings == Calculate_Rankings

\* the rank vectors of two to MaxRankTeams teams with values in ascending
\* order, every value an int or a float
SortedRanks ==
    UNION { { r \in [1..n -> [val : 1..MaxRank, int : BOOLEAN]] :
                \A k \in 1..(n - 1) : r[k].val <= r[k + 1].val } :
            n \in 2..MaxRankTeams }

InitRankings ==
    /\ team_ranks \in SortedRanks
    /\ rank_output = << >>
    /\ part_teams = << >> /\ part_out = << >>
    /\ predict_teams = << >> /\ predictions = << >>
    /\ fast_scores = << >> /\ rank_indices = << >>
    /\ RateIdle
    /\ LadderIdle
    /\ BatchIdle
    /\ games = << >> /\ waves = << >> /\ WavesIdle

SpecRankings == InitRankings /\ [][NextRankings]_vars

\* 0-based position of the first team whose rank value is that of team i
FirstOfTie(ranks, i) == SetMin({ k \in 1..Len(ranks) : ranks[k].val = ranks[i].val }) - 1

\* C24: for a rank vector sorted ascending, of ints or floats, the index
\* returned for a team is the position of the first team with its rank
\* value, and a team with a larger rank value gets a larger index.
C24_TiesShareIndex ==
    rank_output # << >> =>
        \A i, j \in 1..Len(team_ranks) :
            /\ rank_output[i] = FirstOfTie(team_ranks, i)
            /\ team_ranks[i].val < team_ranks[j].val => rank_output[i] < rank_output[j]

---------------------------------------------------------------------------
(* SpecPart: BradleyTerryPart._compute on rank-sorted teams.  Next to the  *)
(* result, the model keeps for every team the teams whose term entered its *)
(* omega and delta, in the order of the loop.                              *)

\* most teams of a game handed to _compute
MaxPartTeams == 4

\* _ladder_pairs(team_ratings): for every team the teams next to it in the
\* list, the left one first (0-based team indices)
LadderPairs(n_teams) ==
    [i \in 1..n_teams |->
        (IF i > 1 THEN <<i - 2>> ELSE << >>) \o (IF i < n_teams THEN <<i>> ELSE << >>)]

\* `for q, team_q in enumerate(adjacent_i): if q == i: continue`: the teams
\* of adjacent_i whose term is added for team i, from position q on
RECURSIVE PairedFrom(_, _, _)
PairedFrom(adjacent_i, i, q) ==
    IF q >= Len(adjacent_i) THEN << >>
    ELSE (IF q = i THEN << >> ELSE <<adjacent_i[q + 1]>>)
         \o PairedFrom(adjacent_i, i, q + 1)

\* BradleyTerryPart._compute(teams, ranks): the integer update of Compute
\* summed over the teams paired with team i; delta is zero, and sigma stays,
\* when no term is added
ComputePart(teams, ranks) ==
    LET n == Len(teams)
        rank == CalculateRankings(n, ranks)
        adjacent_teams == LadderPairs(n)
        paired == [i \in 1..n |-> PairedFrom(adjacent_teams[i], i - 1, 0)]
        score(i, q) == IF rank[q] > rank[i] THEN 2 ELSE IF rank[q] = rank[i] THEN 1 ELSE 0
        expect(i, q) == IF TeamMu(teams[i]) > TeamMu(teams[q]) THEN 2
                        ELSE IF TeamMu(teams[i]) = TeamMu(teams[q]) THEN 1 ELSE 0
        omega(i) == SumSeq([k \in 1..Len(paired[i]) |->
                               score(i, paired[i][k] + 1) - expect(i, paired[i][k] + 1)],
                           Len(paired[i]))
        shrink(i, sg) == IF paired[i] # << >> THEN sg \div 4 ELSE 0
    IN  [paired |-> paired,
         result |-> [i \in 1..n |->
                       [j \in 1..Len(teams[i]) |->
                           [mu |-> teams[i][j].mu + omega(i),
                            sigma |-> IF teams[i][j].sigma - shrink(i, teams[i][j].sigma) < 1
                                      THEN 1
                                      ELSE teams[i][j].sigma
                                           - shrink(i, teams[i][j].sigma)]]]]

\* the call model._compute(teams=teams, ranks=ranks)
Compute_Part ==
    /\ part_teams # << >> /\ part_out = << >>
    /\ part_out' = ComputePart(part_teams.teams, part_teams.ranks)
    /\ UNCHANGED <<part_teams, team_ranks, rank_output, predict_teams, predictions,
                   fast_scores, rank_indices, rateVars, ladderVars, games, waves,
                   waveVars, batchVars>>

NextPart == Compute_Part

\* games of two to MaxPartTeams teams of one player, each at one of two mu,
\* with ranks in ascending order (ties included)
PartGames ==
    UNION { { [teams |-> [i \in 1..n |-> << [mu |-> m[i], sigma |-> DefaultSigma] >>],
               ranks |-> r] :
                m \in [1..n -> {20, 30}],
                r \in { x \in [1..n -> 1..2] : \A k \in 1..(n - 1) : x[k] <= x[k + 1] } } :
            n \in 2..MaxPartTeams }

InitPart ==
    /\ part_teams \in PartGames
    /\ part_out = << >>
    /\ team_ranks = << >> /\ rank_output = << >>
    /\ predict_teams = << >> /\ predictions = << >>
    /\ fast_scores = << >> /\ rank_indices = << >>
    /\ RateIdle
    /\ LadderIdle
    /\ BatchIdle
    /\ games = << >> /\ waves = << >> /\ WavesIdle

SpecPart == InitPart /\ [][NextPart]_vars

\* C25: in a game of k rank-sorted teams the terms added for team i are
\* those of the teams at positions i-1 and i+1 that exist, one each, and of
\* no other team; with k >= 2 every team gets at least one term.
C25_AdjacentTerms ==
    part_out # << >> =>
        \A i \in 1..Len(part_teams.teams) :
            /\ Range(part_out.paired[i])
                   = { q \in 0..(Len(part_teams.teams) - 1) : q = i - 2 \/ q = i }
            /\ Len(part_out.paired[i]) = Cardinality(Range(part_out.paired[i]))
            /\ part_out.paired[i] # << >>

---------------------------------------------------------------------------
(* SpecPredict: predict_rank of PlackettLuce and of BradleyTerryPart.  The *)
(* probabilities are integers: phi_major is a non-decreasing step from 0   *)
(* to 100, and the division by a positive constant that both models apply  *)
(* to every team alike is left out.  The ranking of the probabilities is   *)
(* the code's.                                                             *)

\* most teams handed to predict_rank
MaxPredictTeams == 3

\* phi_major on the integer grid
PhiMajor(x) == IF x <= 0 - 50 THEN 0 ELSE IF x >= 50 THEN 100 ELSE 50 + x

\* PlackettLuce.predict_rank: for team i the sum over the pairs (i, b) of
\* itertools.permutations(teams, 2) of phi_major(mu_a - mu_b - draw_margin),
\* mu of the first player of each team
WinProbabilityPL(teams) ==
    LET n == Len(teams)
        draw_margin == Sqrt(Len(Concat(teams)))
    IN  [i \in 1..n |->
            SumSeq([b \in 1..n |->
                       IF b = i THEN 0
                       ELSE PhiMajor(teams[i][1].mu - teams[b][1].mu - draw_margin)], n)]

\* BradleyTerryPart.predict_rank: for team i the sum over the other teams j
\* of phi_major(team_i.mu - team_j.mu), mu summed over the team
WinProbabilityBT(teams) ==
    LET n == Len(teams)
    IN  [i \in 1..n |->
            SumSeq([j \in 1..n |->
                       IF j = i THEN 0
                       ELSE PhiMajor(TeamMu(teams[i]) - TeamMu(teams[j]))], n)]

\* _arg_sort(vector): the indices in ascending order of (value, index)
ArgSort(vector) == SortedOrder(vector, 0..(Len(vector) - 1))

\* _rank_data: the 0-based sorted position at which the run of equal values
\* ending at position `index` starts
RECURSIVE RunStart(_, _)
RunStart(arg_sorted_vector, index) ==
    IF index = 0 THEN 0
    ELSE IF arg_sorted_vector[index] # arg_sorted_vector[index + 1] THEN index
    ELSE RunStart(arg_sorted_vector, index - 1)

\* _rank_data(vector): every element of a run of equal values gets
\* `index + 1 - duplicate_count + 1`, one more than the start of its run
RankData(vector) ==
    LET arg_sort_rank_vector == ArgSort(vector)
        arg_sorted_vector == Permute(vector, arg_sort_rank_vector)
    IN  [k \in 1..Len(vector) |->
            LET j == CHOOSE x \in 1..Len(vector) : arg_sort_rank_vector[x] = k - 1
            IN  RunStart(arg_sorted_vector, j - 1) + 1]

\* PlackettLuce.predict_rank(teams): `ranks = list(_rank_data(...));
\* max_ordinal = max(ranks); ranks = [abs(_ - max_ordinal) + 1 for _ in ranks]`
PredictRankPL(teams) ==
    LET ranked_probability == WinProbabilityPL(teams)
        ranks == RankData(ranked_probability)
        max_ordinal == SetMax(Range(ranks))
    IN  [k \in 1..Len(teams) |->
            << (IF ranks[k] >= max_ordinal THEN ranks[k] - max_ordinal
                ELSE max_ordinal - ranks[k]) + 1,
               ranked_probability[k] >>]

\* BradleyTerryPart.predict_rank: current_rank at sorted position i
RECURSIVE CurrentRank(_, _)
CurrentRank(sorted_probabilities, i) ==
    IF i = 0 THEN 1
    ELSE IF sorted_probabilities[i + 1] < sorted_probabilities[i] THEN i + 1
    ELSE CurrentRank(sorted_probabilities, i - 1)

\* BradleyTerryPart.predict_rank(teams): the teams sorted by probability,
\* highest first (a stable sort), and the loop over current_rank
PredictRankBT(teams) ==
    LET normalized_probabilities == WinProbabilityBT(teams)
        sorted_teams == Order(Negate(normalized_probabilities))
        sorted_probabilities == Permute(normalized_probabilities, sorted_teams)
    IN  [k \in 1..Len(teams) |->
            LET i == CHOOSE x \in 1..Len(teams) : sorted_teams[x] = k - 1
            IN  << CurrentRank(sorted_probabilities, i - 1),
                   normalized_probabilities[k] >>]

\* the call model.predict_rank(teams)
Predict_Rank ==
    /\ predict_teams # << >> /\ predictions = << >>
    /\ predictions' = IF predict_teams.kind = "PlackettLuce"
                      THEN PredictRankPL(predict_teams.teams)
                      ELSE PredictRankBT(predict_teams.teams)
    /\ UNCHANGED <<predict_teams, team_ranks, rank_output, part_teams, part_out,
                   fast_scores, rank_indices, rateVars, ladderVars, games, waves,
                   waveVars, batchVars>>

NextPredict == Predict_Rank

\* two to MaxPredictTeams teams of one player, each at one of three mu
PredictTeams ==
    UNION { { [i \in 1..n |-> << [mu |-> m[i], sigma |-> DefaultSigma] >>] :
                m \in [1..n -> {20, 25, 30}] } :
            n \in 2..MaxPredictTeams }

InitPredict ==
    /\ predict_teams \in [kind : {"PlackettLuce", "BradleyTerryPart"}, teams : PredictTeams]
    /\ predictions = << >>
    /\ team_ranks = << >> /\ rank_output = << >>
    /\ part_teams = << >> /\ part_out = << >>
    /\ fast_scores = << >> /\ rank_indices = << >>
    /\ RateIdle
    /\ LadderIdle
    /\ BatchIdle
    /\ games = << >> /\ waves = << >> /\ WavesIdle

SpecPredict == InitPredict /\ [][NextPredict]_vars

\* C26: the rank predict_rank returns for a team is one more than the
\* number of teams with a strictly greater returned probability, and the
\* pairs are in the order of the teams handed in.
C26_CompetitionRanking ==
    predictions # << >> =>
        /\ Len(predictions) = Len(predict_teams.teams)
        /\ \A i \in 1..Len(predictions) :
              predictions[i][1]
                  = 1 + Cardinality({ j \in 1..Len(predictions) :
                                        predictions[j][2] > predictions[i][2] })
        /\ \A i, j \in 1..Len(predictions) :
              predict_teams.teams[i][1].mu > predict_teams.teams[j][1].mu
                  => predictions[i][2] > predictions[j][2]

---------------------------------------------------------------------------
(* SpecPipeFair: process in pipelined mode on game lists without a failing *)
(* game and with a partitioner that does not fail.  The calling thread,    *)
(* the builder thread and the pool workers are threads of the runtime: one *)
(* that can take a step is not left waiting for ever.                      *)

\* a chain of games of the same two players and two games that can share a
\* wave with it
FairGameKinds ==
    { Game(1, 2, <<2, 1>>), Game(3, 4, <<1, 2>>), Game(5, 6, <<1, 1>>) }

InitPipeFair ==
    /\ BatchCall(FairGameKinds, MaxPipeGames)
    /\ Pipelined
    /\ ~limit_sigma
    /\ partition_fault = FALSE

SpecPipeFair == InitPipeFair /\ [][NextPipe]_vars /\ WF_vars(NextPipe)

\* the waves in the queue, without the sentinel
IsWave(item) == item # Sentinel

QueuedWaves == SelectSeq(wave_q, IsWave)

\* C27: without a failing game process in pipelined mode returns; the queue
\* never holds more than 2 * n_workers items; it holds the waves put and not
\* yet taken, in wave order, followed by the one sentinel once the builder
\* is done; the consumer starts the waves one after the other in wave order,
\* each once; and when process returns the builder thread has ended, the
\* queue is empty and every game has been rated.
C27_PipelineTerminates ==
    /\ <>(pc = "returned")
    /\ [](Len(wave_q) <= 2 * mode.n_workers)
    /\ [](builder \in {"put", "done"} =>
            /\ wave_q \in { SubSeq(waves, wpos - Len(QueuedWaves) + 1, wpos),
                            SubSeq(waves, wpos - Len(QueuedWaves) + 1, wpos)
                                \o <<Sentinel>> }
            /\ (QueuedWaves # wave_q) => (builder = "done" /\ wpos = Len(waves)))
    /\ [][wave' # wave =>
            \/ wave = << >> /\ wave' = waves[1]
            \/ \E k \in 1..(Len(waves) - 1) : wave = waves[k] /\ wave' = waves[k + 1]]_vars
    /\ []((pc = "returned" /\ games # << >>) =>
            /\ builder = "done" /\ wave_q = << >>
            /\ wave = waves[Len(waves)]
            /\ written = 0..(Len(games) - 1))

\* process returned from a game list of more waves than the queue holds
C27_Witness ==
    /\ pc = "returned" /\ Pipelined
    /\ Len(waves) > 2 * mode.n_workers

---------------------------------------------------------------------------
(* The registry of the Ladder under calls that raise (SpecRegistry).       *)

\* C30: after every call of the Ladder, raising or not, the ids map
\* one-to-one onto the indices 0..len(ladder)-1, the ids with a view are
\* the registered ids, the index of each view is the index of its id, and
\* an id keeps the index it was given.
C30_RegistryConsistent ==
    [][/\ \A e1, e2 \in DOMAIN _entity_to_idx' :
             _entity_to_idx'[e1] = _entity_to_idx'[e2] => e1 = e2
       /\ { _entity_to_idx'[e] : e \in DOMAIN _entity_to_idx' } = 0..(_size' - 1)
       /\ DOMAIN _views' = DOMAIN _entity_to_idx'
       /\ \A e \in DOMAIN _views' \cap DOMAIN _entity_to_idx' :
             _views'[e] = _entity_to_idx'[e]
       /\ \A e \in DOMAIN _entity_to_idx :
             e \in DOMAIN _entity_to_idx' /\ _entity_to_idx'[e] = _entity_to_idx[e]]_vars
====
